---- MODULE Spec2Model ----
(***************************************************************************)
(* Review-state synchronisation engine of claudine-review.                 *)
(*                                                                         *)
(* The model covers the ReviewStore (src/server/store.ts, current revision *)
(* in src/unnamed/part_020), the files it works on (.claude/review.json,   *)
(* its temporary file and its backups), the external agent that edits the  *)
(* same file (src/unnamed/part_001) and the working copy's current branch  *)
(* (src/src/server/startup.ts).                                            *)
(*                                                                         *)
(* A store mutation is several file-system calls; another process can run  *)
(* between any two of them, so each call that is visible outside the       *)
(* process is a step of its own: the operation's first part (reload,       *)
(* compute, open the temporary file), the end of writeFileSync, renameSync *)
(* and the final statSync with the assignment of this.data.                *)
(***************************************************************************)
EXTENDS Integers, Sequences, FiniteSets, TLC

\* ------------------------------------------------------------------ bounds
MaxClock    == 2   \* ticks of the file-system / wall clock
MaxComments == 2   \* comments in one document
MaxThread   == 1   \* entries in one comment thread
MaxOps      == 4   \* operations (store calls, agent writes, checkouts) in a run
MaxIds      == 2   \* distinct ids that nanoid can return

\* --------------------------------------------------------------- constants
\* part_020:34  .slice(0, 100)
SanitizeCap == 100

\* Branch names are sequences of characters.
Main    == <<"m">>
Feature == <<"f", "/", "x">>
HEAD    == <<"H", "E", "A", "D">>
NoBranch == <<>>                      \* the legacy document's missing field
NamedBranches == {Main, Feature}
Branches == NamedBranches \cup {HEAD}

\* part_020:34  the character class [/\\:*?"<>|]
UnsafeChars == {"/", "\\", ":", "*", "?", "\"", "<", ">", "|"}

\* The ref the server was started with (startup.ts:62); one value suffices.
Ref == "HEAD"

\* Timestamps: 0 stands for null, a positive number for an ISO timestamp.
NullTs == 0

\* ------------------------------------------------------------ the file system
FilePath == "review.json"
\* A mutant of TmpPath: the document is written in place.
TmpPathInPlace == FilePath
\* part_020:106  const tmp = this.filePath + ".tmp." + process.pid
TmpPath == "review.json.tmp"

Paths == {FilePath, TmpPath}

NoFile  == [kind |-> "none"]
Partial == [kind |-> "partial"]       \* a file whose write has not finished
Corrupt == [kind |-> "corrupt"]       \* bytes that do not parse or validate
FileOf(d) == [kind |-> "doc", doc |-> d]
\* part_020:71-72  JSON.parse + ReviewDataSchema.parse succeed
IsValid(c) == c.kind = "doc"

\* renameSync(src, dst) on the model's files
RenameFile(f, src, dst) ==
    IF src = dst THEN f ELSE [p \in DOMAIN f |-> IF p = dst THEN f[src]
                                                  ELSE IF p = src THEN NoFile
                                                  ELSE f[p]]
\* the mtimes after renameSync(src, dst): the file keeps its mtime
RenameTime(m, src, dst) ==
    IF src = dst THEN m ELSE [p \in DOMAIN m |-> IF p = dst THEN m[src]
                                                  ELSE IF p = src THEN 0
                                                  ELSE m[p]]

\* ------------------------------------------------------------- the document
\* part_020:19-31
emptyReview(ref, branch) ==
    [round |-> 1, status |-> "draft", ref |-> ref, branch |-> branch,
     submittedAt |-> NullTs, comments |-> <<>>, summary |-> 0]

\* A mutant of sanitizeBranch: the name is used as it is.
sanitizeNothing(branch) == branch
\* part_020:33-35
sanitizeBranch(branch) ==
    LET repl == [i \in 1..Len(branch) |->
                    IF branch[i] \in UnsafeChars THEN "-" ELSE branch[i]]
    IN  SubSeq(repl, 1, IF Len(repl) < SanitizeCap THEN Len(repl) ELSE SanitizeCap)

AllResolved(cs) == \A i \in 1..Len(cs) : cs[i].status = "resolved"

\* findIndex (part_020:175): the first index with the id, 0 when there is none
FindIndex(cs, id) ==
    IF \E i \in 1..Len(cs) : cs[i].id = id
    THEN CHOOSE i \in 1..Len(cs) : cs[i].id = id /\ \A j \in 1..(i-1) : cs[j].id # id
    ELSE 0

\* filter (part_020:211)
RECURSIVE FilterOut(_, _)
FilterOut(cs, id) ==
    IF cs = <<>> THEN <<>>
    ELSE IF Head(cs).id = id THEN FilterOut(Tail(cs), id)
         ELSE <<Head(cs)>> \o FilterOut(Tail(cs), id)

\* A comment draft (CreateComment): its line, its endLine (0 when absent)
\* and whether its body has text.
Draft(line, endLine, hasBody) == [line |-> line, endLine |-> endLine, hasBody |-> hasBody]
DefaultDraft == Draft(1, 0, TRUE)

\* part_020:146-160  endLine: draft.endLine ?? draft.line
CommentFrom(id, draft) ==
    [id |-> id, status |-> "pending", thread |-> <<>>, body |-> "orig",
     resolvedAt |-> "null", line |-> draft.line,
     endLine |-> IF draft.endLine = 0 THEN draft.line ELSE draft.endLine]
NewComment(id) == CommentFrom(id, DefaultDraft)

\* A mutant of AddTo: the document's status is left as it is.
AddToKeepingStatus(d, id, now) ==
    [d EXCEPT !.submittedAt = IF d.submittedAt # NullTs THEN d.submittedAt ELSE now,
              !.comments = Append(d.comments, NewComment(id))]
\* A mutant of AddTo: every addComment stamps submittedAt.
AddToStamping(d, id, now) ==
    [d EXCEPT !.status = "submitted", !.submittedAt = now,
              !.comments = Append(d.comments, NewComment(id))]
\* part_020:162-167
AddTo(d, id, now) ==
    [d EXCEPT !.status = "submitted",
              !.submittedAt = IF d.submittedAt # NullTs THEN d.submittedAt ELSE now,
              !.comments = Append(d.comments, NewComment(id))]
\* part_020:146-167  the same for any draft
AddDraft(d, id, now, draft) ==
    [AddTo(d, id, now) EXCEPT !.comments = Append(d.comments, CommentFrom(id, draft))]

\* The patches the model feeds to updateComment.  A field that is absent
\* from the patch is "absent" (status, resolvedAt) or FALSE (reply, body).
Patch(reply, status, body, resolvedAt) ==
    [reply |-> reply, status |-> status, body |-> body, resolvedAt |-> resolvedAt]
Patches ==
    { Patch(TRUE,  "absent",   FALSE, "absent"),
      Patch(FALSE, "resolved", FALSE, "absent"),
      Patch(FALSE, "pending",  FALSE, "null"),
      Patch(FALSE, "draft",    FALSE, "absent"),
      Patch(FALSE, "absent",   FALSE, "null"),
      Patch(TRUE,  "resolved", FALSE, "absent"),
      Patch(FALSE, "absent",   TRUE,  "absent") }

\* part_020:178-191
ApplyPatch(c, patch) ==
    LET c1 == IF patch.reply
              THEN [c EXCEPT !.thread = Append(c.thread, "user"), !.status = "pending"]
              ELSE c
        c2 == IF patch.status # "absent" THEN [c1 EXCEPT !.status = patch.status] ELSE c1
        c3 == IF patch.body THEN [c2 EXCEPT !.body = "edited"] ELSE c2
        c4 == IF patch.resolvedAt # "absent"
              THEN [c3 EXCEPT !.resolvedAt = patch.resolvedAt] ELSE c3
    IN  IF patch.status = "resolved" /\ c4.resolvedAt = "null"
        THEN [c4 EXCEPT !.resolvedAt = "ts"] ELSE c4

\* A mutant of UpdateIn: the updated comment is taken out and put at the end.
UpdateInMovingLast(d, idx, patch) ==
    LET cs == Append(SelectSeq([i \in 1..Len(d.comments) |->
                                   IF i = idx THEN [d.comments[i] EXCEPT !.id = 0]
                                   ELSE d.comments[i]],
                               LAMBDA c : c.id # 0),
                     ApplyPatch(d.comments[idx], patch))
    IN  [d EXCEPT !.comments = cs,
                  !.status = IF AllResolved(cs) THEN "resolved" ELSE d.status]
\* part_020:193-200
UpdateIn(d, idx, patch) ==
    LET cs == [d.comments EXCEPT ![idx] = ApplyPatch(d.comments[idx], patch)]
    IN  [d EXCEPT !.comments = cs,
                  !.status = IF AllResolved(cs) THEN "resolved" ELSE d.status]

\* part_020:209-212
DeleteFrom(d, id) == [d EXCEPT !.comments = FilterOut(d.comments, id)]

\* part_020:220-223
WithSummary(d, s) == [d EXCEPT !.summary = s]

\* --------------------------------------------------------------- the state
VARIABLES
    clock,       \* the clock behind Date.now() and the files' mtimes
    fs,          \* content of review.json and of the temporary file
    mt,          \* mtime of each of the two files
    backups,     \* the backup files: name and content
    repoBranch,  \* the working copy's current branch (getBranch)
    pc,          \* the store process: "down", "idle", or its place in a write
    data,        \* ReviewStore.data
    lastMtime,   \* ReviewStore.lastMtime
    wdoc,        \* the argument of the writeAtomic call in progress
    cur,         \* the store operation in progress
    out,         \* how the last finished store operation ended
    agent,       \* the external agent: its copy of the document
    hist,        \* history of the run, for stating the properties
    ops,         \* operations started so far
    ret,         \* the document a caller got from getData and still holds
    \* the server around the store (index.ts, api.ts, sse.ts)
    listening,   \* the HTTP server accepts requests
    connections, \* sse.ts: the set of live SSE responses
    broken,      \* the connections on which write() and end() throw
    ended,       \* the connections on which end() was called
    cast,        \* the last broadcast: its event, payload and deliveries
    resp,        \* the last request and how it was answered
    subs,        \* the active file-system subscriptions on review.json
    watcher,     \* ReviewStore.watcher: a subscription, or 0 for null
    onChange,    \* ReviewStore.onChange: a callback, or 0 for null
    fileWatcher, \* index.ts: the watch on the files of the diff is active
    calls,       \* invocations of the store's onChange callback so far
    \* the git repository behind the diff service (part_017)
    repo,        \* the commits, HEAD and the refs of origin as git reports them
    base         \* the last result of getMergeBase

storeVars == <<clock, fs, mt, backups, repoBranch, pc, data, lastMtime, wdoc, cur,
               out, agent, hist, ops, ret>>
serverVars == <<listening, connections, broken, ended, cast, resp, subs, watcher,
                onChange, fileWatcher, calls, repo, base>>
vars == <<storeVars, serverVars>>

NoData == emptyReview(Ref, NoBranch)
NoPatch == Patch(FALSE, "absent", FALSE, "absent")
NoOp == [op |-> "none", id |-> 0, patch |-> NoPatch]
Op(o, id, patch) == [op |-> o, id |-> id, patch |-> patch]
\* The writes of load (part_020:64, 52 from 75, 84, 52 from 90) and of the
\* mutations (part_020:169, 202, 214, 224)
LoadOps == {"load:create", "load:corrupt", "load:migrate", "load:switch"}
MutationOps == {"add", "update", "delete", "summary"}

\* hist.pre / hist.post: review.json when the write in progress began, and the
\*   document being written;  hist.fresh: that content was an agent's write
\*   the store had not seen;  hist.ext: the agent wrote since that write began;
\*   hist.crashed: "crashed" once the process stopped inside the write,
\*   "reloaded" once a store was opened after that;
\*   hist.branch: the branch the store was constructed with;
\*   hist.writer: who wrote review.json last;
\*   hist.stale: the store persisted after the agent took its copy;
\*   hist.lost: the agent has overwritten such a store write;
\*   hist.opened: the branches the stores of this repository were opened on;
\*   hist.foreign: a file not written by this tool's store or agent (invalid
\*   bytes, a document of the older format) has been put at the path.
\* The caller holds no document; and the document a caller holds: whether it
\* is the store's own object (shared) or a copy, what it is now, and whether
\* the caller has changed it since getData returned it.
NoRet == [from |-> "none"]
Returned(shared, d) == [from |-> "getData", shared |-> shared, doc |-> d, touched |-> FALSE]
\* A mutant of structuredClone: getData returns this.data itself.
returnReference(d) == Returned(TRUE, d)
\* part_020:136  structuredClone(this.data)
structuredClone(d) == Returned(FALSE, d)

Hist0 == [pre |-> NoFile, post |-> NoData, fresh |-> FALSE, ext |-> FALSE,
          crashed |-> "no", branch |-> NoBranch, writer |-> "none", stale |-> FALSE, lost |-> FALSE,
          opened |-> {}, foreign |-> FALSE]

\* ------------------------------------------------------ the git repository
\* The commits of a repository are numbered in the order they were made; a
\* commit's parent is an earlier commit, or none (a root).
MaxCommits == 3
NoCommit == 0
Commits == 1..MaxCommits
Parents == { p \in [Commits -> 0..(MaxCommits - 1)] : \A c \in Commits : p[c] < c }
\* The branches of origin that the repository may know
RemoteBranches == {"main", "master"}
\* What `git symbolic-ref refs/remotes/origin/HEAD` prints: nothing (it
\* fails), a ref under refs/remotes/origin/, or a ref elsewhere
OriginPrefix == <<"refs", "remotes", "origin">>
OriginHeads ==
    { <<>>, OriginPrefix \o <<"main">>, OriginPrefix \o <<"master">>,
      OriginPrefix \o <<"gone">>, <<"refs", "heads", "main">> }
\* A repository: the parent of each commit, HEAD (NoCommit before the first
\* commit), the target of origin/HEAD, the remote-tracking refs origin/<b>
\* (NoCommit: no such ref), and where origin's main is now (what a fetch
\* that succeeds brings).
Repos ==
    [ parent : Parents, head : 0..MaxCommits, originHead : OriginHeads,
      tracking : [RemoteBranches -> 0..MaxCommits], remoteMain : 0..MaxCommits ]
NoRepo ==
    [ parent |-> [c \in Commits |-> 0], head |-> NoCommit, originHead |-> <<>>,
      tracking |-> [b \in RemoteBranches |-> NoCommit], remoteMain |-> NoCommit ]
\* No call of getMergeBase yet; and what a call returned (NoCommit: null)
NotCalled == [called |-> FALSE, fetch |-> "none", value |-> NoCommit]
Result(fetch, value) == [called |-> TRUE, fetch |-> fetch, value |-> value]

\* part_017:18  ref.replace(/^refs\/remotes\/origin\//, "")
StripOrigin(ref) ==
    IF Len(ref) > Len(OriginPrefix) /\ SubSeq(ref, 1, Len(OriginPrefix)) = OriginPrefix
    THEN SubSeq(ref, Len(OriginPrefix) + 1, Len(ref))
    ELSE ref
\* part_017:27, 60  `git rev-parse --verify origin/<name>`, and origin/<name>
\* as an argument of merge-base: the commit, or NoCommit when git fails
RevParseOrigin(r, name) ==
    IF Len(name) = 1 /\ name[1] \in RemoteBranches THEN r.tracking[name[1]]
    ELSE NoCommit
\* part_017:9-39  getDefaultBranch; <<>> is null
getDefaultBranch(r) ==
    IF StripOrigin(r.originHead) # <<>> THEN StripOrigin(r.originHead)
    ELSE IF RevParseOrigin(r, <<"main">>) # NoCommit THEN <<"main">>
    ELSE IF RevParseOrigin(r, <<"master">>) # NoCommit THEN <<"master">>
    ELSE <<>>
\* `git merge-base a b`: the latest commit that both reach, found by stepping
\* back from the later of the two; NoCommit when there is none (git fails)
RECURSIVE GitMergeBase(_, _, _)
GitMergeBase(parent, a, b) ==
    IF a = NoCommit \/ b = NoCommit THEN NoCommit
    ELSE IF a = b THEN a
    ELSE IF a > b THEN GitMergeBase(parent, parent[a], b)
    ELSE GitMergeBase(parent, a, parent[b])
\* part_017:43-53  `git fetch origin`: when it succeeds origin/main is where
\* origin's main is; when it fails or is killed after 10 s the catch block
\* goes on with the refs as they are
FetchOutcomes == {"ok", "failed", "timeout"}
Fetch(r, outcome) ==
    IF outcome = "ok" /\ r.remoteMain # NoCommit
    THEN [r EXCEPT !.tracking["main"] = r.remoteMain]
    ELSE r
\* A mutant of MergeBaseAfterFetch: HEAD is not compared with the merge-base.
MergeBaseUncompared(r) ==
    IF getDefaultBranch(r) = <<>> THEN NoCommit
    ELSE GitMergeBase(r.parent, RevParseOrigin(r, getDefaultBranch(r)), r.head)
\* part_017:55-77  getMergeBase after the fetch
MergeBaseAfterFetch(r) ==
    LET defaultBranch == getDefaultBranch(r)
        mergeBase == GitMergeBase(r.parent, RevParseOrigin(r, defaultBranch), r.head)
    IN  IF defaultBranch = <<>> THEN NoCommit
        ELSE IF mergeBase = NoCommit THEN NoCommit
        ELSE IF mergeBase = r.head THEN NoCommit
        ELSE mergeBase
\* part_017:41-78  getMergeBase
getMergeBase(r, outcome) == MergeBaseAfterFetch(Fetch(r, outcome))

\* No broadcast yet, no request yet.
NoCast == [event |-> "none", to |-> {}, got |-> <<>>, threw |-> FALSE, data |-> NoData]
\* What an answer carries: nothing, a document, the content of a file.
Nothing == [kind |-> "nothing"]
Document == [kind |-> "doc"]
NoResp == [req |-> "none", status |-> 0, sent |-> Nothing]
\* The store on its own: no server runs around it.
NoServer ==
    /\ listening = FALSE /\ connections = {} /\ broken = {} /\ ended = {}
    /\ cast = NoCast /\ resp = NoResp
    /\ subs = {} /\ watcher = 0 /\ onChange = 0 /\ fileWatcher = FALSE
    /\ calls = 0
    /\ repo = NoRepo /\ base = NotCalled

Init ==
    /\ clock = 1
    /\ fs = [p \in Paths |-> NoFile]
    /\ mt = [p \in Paths |-> 0]
    /\ backups = {}
    /\ repoBranch \in Branches
    /\ pc = "down"
    /\ data = NoData
    /\ lastMtime = 0
    /\ wdoc = NoData
    /\ cur = NoOp
    /\ out = "none"
    /\ agent = NoFile
    /\ hist = Hist0
    /\ ops = 0
    /\ ret = NoRet
    /\ NoServer

\* ------------------------------------------------------------ writeAtomic
\* A mutant of CleanupTmp: the temporary file is left behind.
CleanupSkipped(f) == f
\* part_020:111  try { unlinkSync(tmp) } catch {}
CleanupTmp(f) == [f EXCEPT ![TmpPath] = NoFile]
\* the mtimes after the cleanup
CleanupTime(f, m) == [p \in DOMAIN m |-> IF f[p] = NoFile THEN 0 ELSE m[p]]

\* part_020:100-108  writeAtomic up to the moment writeFileSync has opened
\* (and truncated) the temporary file.  f is the file system at that moment.
StartWrite(o, d, f) ==
    /\ pc' = "tmp1"
    /\ wdoc' = d
    /\ cur' = o
    /\ fs' = [f EXCEPT ![TmpPath] = Partial]
    /\ mt' = [mt EXCEPT ![TmpPath] = clock]
    /\ hist' = [hist EXCEPT !.pre = f[FilePath], !.post = d, !.ext = FALSE,
                            !.crashed = IF o.op \in LoadOps /\ hist.crashed = "crashed"
                                        THEN "reloaded" ELSE "no",
                            !.branch = IF o.op \in LoadOps THEN repoBranch
                                       ELSE hist.branch,
                            !.opened = IF o.op \in LoadOps
                                       THEN hist.opened \cup {repoBranch}
                                       ELSE hist.opened,
                            !.fresh = (hist.writer = "agent"
                                       /\ mt[FilePath] > lastMtime
                                       /\ o.op \in MutationOps)]
    /\ out' = "none"

\* part_020:108  writeFileSync returns: the temporary file is complete
WriteTmpEnd ==
    /\ pc = "tmp1"
    /\ fs' = [fs EXCEPT ![TmpPath] = FileOf(wdoc)]
    /\ mt' = [mt EXCEPT ![TmpPath] = clock]
    /\ pc' = "tmp2"
    /\ UNCHANGED <<clock, backups, repoBranch, data, lastMtime, wdoc, cur, out,
                   agent, hist, ops, ret, serverVars>>

\* The store after an exception left writeAtomic: the constructor fails
\* (part_020:16), a mutation throws to its caller with this.data as it was.
Thrown ==
    /\ pc' = IF cur.op \in LoadOps THEN "down" ELSE "idle"
    /\ out' = "throw:write"
    /\ cur' = NoOp
    /\ wdoc' = NoData
    /\ mt' = CleanupTime(fs', mt)
    /\ UNCHANGED <<clock, backups, repoBranch, data, lastMtime,
                   agent, hist, ops, ret, serverVars>>

\* part_020:108,110-113  writeFileSync throws
WriteFail ==
    /\ pc = "tmp1"
    /\ fs' = CleanupTmp(fs)
    /\ Thrown

\* part_020:109  renameSync(tmp, this.filePath)
RenameTmp ==
    /\ pc = "tmp2"
    /\ fs' = RenameFile(fs, TmpPath, FilePath)
    /\ mt' = RenameTime(mt, TmpPath, FilePath)
    /\ pc' = "stat"
    /\ hist' = [hist EXCEPT !.writer = "store", !.lost = FALSE,
                            !.stale = (agent.kind = "doc")]
    /\ UNCHANGED <<clock, backups, repoBranch, data, lastMtime, wdoc, cur, out,
                   agent, ops, ret, serverVars>>

\* part_020:109-113  renameSync throws
RenameFail ==
    /\ pc = "tmp2"
    /\ fs' = CleanupTmp(fs)
    /\ Thrown

\* part_020:114-115  this.lastMtime = statSync(...).mtimeMs; this.data = data
StatAfterWrite ==
    /\ pc = "stat"
    /\ lastMtime' = mt[FilePath]
    /\ data' = wdoc
    /\ pc' = "idle"
    /\ out' = "ok"
    /\ cur' = NoOp
    /\ wdoc' = NoData
    /\ hist' = [hist EXCEPT !.pre = NoFile, !.post = NoData, !.fresh = FALSE,
                            !.ext = FALSE]
    /\ UNCHANGED <<clock, fs, mt, backups, repoBranch, agent, ops, ret, serverVars>>

\* ------------------------------------------------------------------- load
\* A mutant of IsBranchSwitch: the detached-HEAD sentinel is not exempted.
IsBranchSwitchNoSentinel(docBranch, branch) == docBranch # branch
\* part_020:88  result.branch !== branch && branch !== "HEAD"
IsBranchSwitch(docBranch, branch) == docBranch # branch /\ branch # HEAD

\* part_020:38  this.filePath + `.backup.${suffix}`; the suffix is the
\* sanitized old branch (empty on the corruption path) and Date.now()
BackupName(prefix, now) == [branch |-> prefix, ts |-> now]
\* A mutant of WithBackup: no backup file is made.
WithoutBackup(bs, name, content) == bs
\* renameSync(this.filePath, backupPath): a file of that name is replaced
WithBackup(bs, name, content) ==
    {b \in bs : b.name # name} \cup {[name |-> name, content |-> content]}

\* A mutant of IsLegacy: a document without branch is like any other.
IsLegacyNever(d) == FALSE
\* part_020:81  result.branch === undefined
IsLegacy(d) == d.branch = NoBranch

\* A mutant of KeepExisting: the loaded document is not looked at.
KeepNothing(existing) == FALSE
\* part_020:46-49  if (existing) return existing
KeepExisting(existing) == existing

\* part_020:14-17,56-97  new ReviewStore(repoRoot, ref, branch), with the
\* branch that startup() read from the working copy (startup.ts:63).
\* renameOk: whether the renameSync of backupAndReset (part_020:41) succeeds.
Open(renameOk) ==
    /\ pc = "down"
    /\ ops < MaxOps
    /\ ops' = ops + 1
    /\ LET branch == repoBranch
           f == fs[FilePath]
           fresh == emptyReview(Ref, branch)
           moved == [fs EXCEPT ![FilePath] = NoFile]
           keep ==
               /\ pc' = "idle" /\ fs' = fs /\ mt' = mt /\ cur' = NoOp
               /\ backups' = backups /\ wdoc' = NoData
               /\ hist' = [hist EXCEPT !.crashed = IF hist.crashed = "crashed"
                                                   THEN "reloaded" ELSE "no",
                                       !.branch = branch, !.fresh = FALSE,
                                       !.opened = hist.opened \cup {branch}]
       IN
       IF f.kind = "none"
       THEN \* part_020:62-66
            /\ renameOk
            /\ StartWrite(Op("load:create", 0, NoPatch), fresh, fs)
            /\ UNCHANGED <<backups, data, lastMtime>>
       ELSE IF ~IsValid(f)
       THEN \* part_020:74-78, 37-53 without `existing`
            /\ StartWrite(Op("load:corrupt", 0, NoPatch), fresh,
                          IF renameOk THEN moved ELSE fs)
            /\ backups' = IF renameOk
                          THEN WithBackup(backups, BackupName(<<>>, clock), f)
                          ELSE backups
            /\ UNCHANGED <<data, lastMtime>>
       ELSE IF IsLegacy(f.doc)
       THEN \* part_020:73, 81-86
            /\ renameOk
            /\ lastMtime' = mt[FilePath]
            /\ StartWrite(Op("load:migrate", 0, NoPatch), [f.doc EXCEPT !.branch = branch], fs)
            /\ UNCHANGED <<backups, data>>
       ELSE IF IsBranchSwitch(f.doc.branch, branch)
       THEN \* part_020:73, 88-94, 37-53 with `existing`
            /\ lastMtime' = mt[FilePath]
            /\ IF renameOk
               THEN /\ StartWrite(Op("load:switch", 0, NoPatch), fresh, moved)
                    /\ backups' = WithBackup(backups,
                          BackupName(sanitizeBranch(f.doc.branch), clock), f)
                    /\ data' = data
               ELSE IF KeepExisting(TRUE)
               THEN /\ keep
                    /\ data' = f.doc
                    /\ out' = "kept"
               ELSE /\ StartWrite(Op("load:switch", 0, NoPatch), fresh, fs)
                    /\ UNCHANGED <<backups, data>>
       ELSE \* part_020:73, 96
            /\ renameOk
            /\ lastMtime' = mt[FilePath]
            /\ data' = f.doc
            /\ out' = "loaded"
            /\ keep
    /\ UNCHANGED <<clock, repoBranch, agent, ret, serverVars>>

\* ------------------------------------------------------- reloadIfChanged
\* A mutant of NeedsReload: the store never looks at the file again.
NeverReload(stat, last) == FALSE
\* part_020:122  stat.mtimeMs > this.lastMtime
NeedsReload(stat, last) == stat > last

\* part_020:120-128  the result of reloadIfChanged: whether it returned
\* (ok) or threw, and this.data and this.lastMtime after it
Reloaded ==
    IF fs[FilePath].kind = "none"
    THEN [ok |-> FALSE, data |-> data, lm |-> lastMtime]
    ELSE IF NeedsReload(mt[FilePath], lastMtime)
    THEN IF IsValid(fs[FilePath])
         THEN [ok |-> TRUE, data |-> fs[FilePath].doc, lm |-> mt[FilePath]]
         ELSE [ok |-> FALSE, data |-> data, lm |-> lastMtime]
    ELSE [ok |-> TRUE, data |-> data, lm |-> lastMtime]

\* An operation that ends without writing: res is what its caller gets.
Finish(res) ==
    /\ pc' = "idle" /\ out' = res /\ cur' = NoOp /\ wdoc' = NoData
    /\ hist' = [hist EXCEPT !.fresh = FALSE]
    /\ UNCHANGED <<fs, mt>>

\* The common head of every public operation: the store is idle, the
\* operation counts against the bound of the run.
Call ==
    /\ pc = "idle"
    /\ ops < MaxOps
    /\ ops' = ops + 1
    /\ UNCHANGED <<clock, backups, repoBranch, agent, serverVars>>

\* part_020:121-123  reloadIfChanged goes on to readFileSync
ReadsFile == fs[FilePath].kind # "none" /\ NeedsReload(mt[FilePath], lastMtime)

\* part_020:130-137
GetData ==
    /\ Call
    /\ data' = Reloaded.data
    /\ lastMtime' = Reloaded.lm
    /\ ret' = structuredClone(Reloaded.data)
    /\ Finish("ok")

\* part_020:148  nanoid(8): some id; nothing compares it with the ids in use
Ids == 1..MaxIds

\* part_020:143-171  up to the call of writeFileSync; id is nanoid's result
AddComment(id) ==
    /\ Call
    /\ Len(Reloaded.data.comments) < MaxComments
    /\ ret' = NoRet
    /\ data' = Reloaded.data
    /\ lastMtime' = Reloaded.lm
    /\ IF Reloaded.ok
       THEN StartWrite(Op("add", id, NoPatch), AddTo(Reloaded.data, id, clock), fs)
       ELSE Finish("throw:reload")

\* part_020:173-204  up to the call of writeFileSync
UpdateComment(id, patch) ==
    /\ Call
    /\ ret' = NoRet
    /\ data' = Reloaded.data
    /\ lastMtime' = Reloaded.lm
    /\ LET idx == FindIndex(Reloaded.data.comments, id) IN
       IF ~Reloaded.ok THEN Finish("throw:reload")
       ELSE IF idx = 0 THEN Finish("notfound")
       ELSE /\ patch.reply => Len(Reloaded.data.comments[idx].thread) < MaxThread
            /\ StartWrite(Op("update", id, patch), UpdateIn(Reloaded.data, idx, patch), fs)

\* part_020:206-216  up to the call of writeFileSync
DeleteComment(id) ==
    /\ Call
    /\ ret' = NoRet
    /\ data' = Reloaded.data
    /\ lastMtime' = Reloaded.lm
    /\ LET updated == DeleteFrom(Reloaded.data, id) IN
       IF ~Reloaded.ok THEN Finish("throw:reload")
       ELSE IF Len(updated.comments) = Len(Reloaded.data.comments) THEN Finish("notfound")
       ELSE StartWrite(Op("delete", id, NoPatch), updated, fs)

\* part_020:218-226  up to the call of writeFileSync
SetSummary(s) ==
    /\ Call
    /\ ret' = NoRet
    /\ data' = Reloaded.data
    /\ lastMtime' = Reloaded.lm
    /\ IF Reloaded.ok
       THEN StartWrite(Op("summary", s, NoPatch), WithSummary(Reloaded.data, s), fs)
       ELSE Finish("throw:reload")

\* -------------------------------------------------------------- the agent
\* What the agent does to its copy (part_001:15-20, 24-44): it answers a
\* pending comment in the comment's thread, or it fills in the summary.
AgentEdits == [k : {"reply"}, i : 1..MaxComments] \cup [k : {"summary"}, i : {0}]
AgentSummary == 2
StoreSummary == 1

CanEdit(d, e) ==
    \/ e.k = "summary"
    \/ /\ e.k = "reply"
       /\ e.i <= Len(d.comments)
       /\ d.comments[e.i].status = "pending"
       /\ Len(d.comments[e.i].thread) < MaxThread

AgentEdit(d, e) ==
    IF e.k = "summary" THEN [d EXCEPT !.summary = AgentSummary]
    ELSE [d EXCEPT !.comments[e.i].thread = Append(@, "ai")]

\* part_001:1  "Read the review comments from .claude/review.json"
AgentRead ==
    /\ fs[FilePath].kind # "none"
    /\ agent # fs[FilePath]
    /\ agent' = fs[FilePath]
    /\ hist' = [hist EXCEPT !.stale = FALSE]
    /\ UNCHANGED <<clock, fs, mt, backups, repoBranch, pc, data, lastMtime,
                   wdoc, cur, out, ops, ret, serverVars>>

\* part_001:15-20, 46  the agent writes its edited copy over review.json
AgentWrite(e) ==
    /\ agent.kind = "doc"
    /\ ops < MaxOps
    /\ ops' = ops + 1
    /\ CanEdit(agent.doc, e)
    /\ fs' = [fs EXCEPT ![FilePath] = FileOf(AgentEdit(agent.doc, e))]
    /\ mt' = [mt EXCEPT ![FilePath] = clock]
    /\ agent' = NoFile
    /\ hist' = [hist EXCEPT !.writer = "agent", !.stale = FALSE,
                            !.lost = hist.stale,
                            !.ext = (pc \in {"tmp1", "tmp2", "stat"}
                                     \/ hist.crashed = "crashed")]
    /\ ret' = NoRet
    /\ UNCHANGED <<clock, backups, repoBranch, pc, data, lastMtime, wdoc, cur,
                   out, serverVars>>

\* What a caller can do to the document it holds: change a field of the
\* document, or a field of a comment in it.
Scribbles == {"round", "body"}
Scribble(d, k) ==
    IF k = "round" THEN [d EXCEPT !.round = 2]
    ELSE IF Len(d.comments) > 0 THEN [d EXCEPT !.comments[1].body = "scribbled"]
    ELSE d

\* The caller of getData changes the document it got.  If that object is the
\* store's own, this.data changes with it.
CallerMutate(k) ==
    /\ ret.from = "getData"
    /\ Scribble(ret.doc, k) # ret.doc
    /\ ops < MaxOps
    /\ ops' = ops + 1
    /\ ret' = [ret EXCEPT !.doc = Scribble(ret.doc, k), !.touched = TRUE]
    /\ data' = IF ret.shared THEN Scribble(ret.doc, k) ELSE data
    /\ UNCHANGED <<clock, fs, mt, backups, repoBranch, pc, lastMtime, wdoc, cur,
                   out, agent, hist, serverVars>>

\* ------------------------------------------------------- the environment
\* Time passes: Date.now() and the mtime of later writes move on.
Tick ==
    /\ clock < MaxClock
    /\ clock' = clock + 1
    /\ UNCHANGED <<fs, mt, backups, repoBranch, pc, data, lastMtime, wdoc, cur,
                   out, agent, hist, ops, ret, serverVars>>

\* git checkout in the working copy; the server is not told.
Checkout(b) ==
    /\ b # repoBranch
    /\ ops < MaxOps
    /\ ops' = ops + 1
    /\ repoBranch' = b
    /\ UNCHANGED <<clock, fs, mt, backups, pc, data, lastMtime, wdoc, cur, out,
                   agent, hist, ret, serverVars>>

\* Another process writes bytes that do not parse to review.json
\* (part_008:525  writeFileSync(reviewPath, "NOT VALID JSON {{{{")).
CorruptWrite ==
    /\ fs[FilePath] # Corrupt
    /\ ops < MaxOps
    /\ ops' = ops + 1
    /\ fs' = [fs EXCEPT ![FilePath] = Corrupt]
    /\ mt' = [mt EXCEPT ![FilePath] = clock]
    /\ hist' = [hist EXCEPT !.writer = "other", !.lost = FALSE, !.foreign = TRUE,
                            !.ext = (pc \in {"tmp1", "tmp2", "stat"}
                                     \/ hist.crashed = "crashed")]
    /\ ret' = NoRet
    /\ UNCHANGED <<clock, backups, repoBranch, pc, data, lastMtime, wdoc, cur,
                   out, agent, serverVars>>

\* The documents of the format without the branch field (part_008:688-707):
\* an empty one and one with a comment.
LegacyDocs ==
    { emptyReview(Ref, NoBranch), AddTo(emptyReview(Ref, NoBranch), 1, 1) }

\* The repository has a review.json that a version of the tool without the
\* branch field left there, before any store of this version ran.
LegacyWrite(d) ==
    /\ pc = "down"
    /\ fs[FilePath] = NoFile
    /\ ops < MaxOps
    /\ ops' = ops + 1
    /\ fs' = [fs EXCEPT ![FilePath] = FileOf(d)]
    /\ mt' = [mt EXCEPT ![FilePath] = clock]
    /\ hist' = [hist EXCEPT !.writer = "other", !.lost = FALSE, !.foreign = TRUE,
                            !.ext = (hist.crashed = "crashed")]
    /\ UNCHANGED <<clock, backups, repoBranch, pc, data, lastMtime, wdoc, cur,
                   out, agent, ret, serverVars>>

\* The server process stops; what it held in memory is gone, the files stay.
Crash ==
    /\ pc # "down"
    /\ pc' = "down"
    /\ data' = NoData
    /\ lastMtime' = 0
    /\ wdoc' = NoData
    /\ cur' = NoOp
    /\ out' = "none"
    /\ hist' = [hist EXCEPT !.crashed = IF pc \in {"tmp1", "tmp2", "stat"}
                                        THEN "crashed" ELSE "no",
                            !.fresh = FALSE]
    /\ ret' = NoRet
    /\ UNCHANGED <<clock, fs, mt, backups, repoBranch, agent, ops, serverVars>>

Next ==
    \/ \E renameOk \in BOOLEAN : Open(renameOk)
    \/ WriteTmpEnd
    \/ WriteFail
    \/ RenameTmp
    \/ RenameFail
    \/ StatAfterWrite
    \/ GetData
    \/ \E id \in Ids : AddComment(id)
    \/ \E id \in Ids, patch \in Patches : UpdateComment(id, patch)
    \/ \E id \in Ids : DeleteComment(id)
    \/ SetSummary(StoreSummary)
    \/ AgentRead
    \/ \E e \in AgentEdits : AgentWrite(e)
    \/ Tick
    \/ \E b \in Branches : Checkout(b)
    \/ CorruptWrite
    \/ \E d \in LegacyDocs : LegacyWrite(d)
    \/ \E k \in Scribbles : CallerMutate(k)
    \/ Crash

Spec == Init /\ [][Next]_vars

\* ================================================================ the server
\* The HTTP facade (api.ts), the SSE connections (sse.ts, part_021:194-246),
\* the watches and the shutdown (index.ts) around a store that is open.
\* Node runs a request handler, a broadcast and a watch callback to their end
\* before it runs anything else, so each is one step; the store operation
\* inside a handler is taken with its file-system calls succeeding at once
\* (ioOk) or failing (not ioOk).

\* ----------------------------------------------------------------- tokens
\* A token is a string: a sequence of characters.  "e'" stands for a
\* character outside ASCII, which is two bytes in UTF-8.
Expected == <<"a", "b">>
Tokens == { <<>>, <<"a", "b">>, <<"a", "c">>, <<"a", "e'">> }
RECURSIVE ByteLength(_)
ByteLength(t) ==
    IF t = <<>> THEN 0
    ELSE (IF Head(t) = "e'" THEN 2 ELSE 1) + ByteLength(Tail(t))

\* api.ts:51-62  checkToken: "ok", "401", or "throw" when timingSafeEqual
\* gets buffers of different byte length
checkToken(t) ==
    IF Len(t) # Len(Expected) THEN "401"
    ELSE IF ByteLength(t) # ByteLength(Expected) THEN "throw"
    ELSE IF t = Expected THEN "ok" ELSE "401"

\* ---------------------------------------------------------------- schemas
\* A mutant of AddCommentSchema: the refinement on endLine is missing.
AddCommentSchemaUnrefined(draft) ==
    draft.line >= 1 /\ draft.hasBody
\* sidebar.ts:76-85  CreateCommentSchema / AddCommentSchema
AddCommentSchema(draft) ==
    /\ draft.line >= 1
    /\ draft.hasBody
    /\ draft.endLine = 0 \/ (draft.endLine >= 1 /\ draft.endLine >= draft.line)
\* sidebar.ts:87-92  UpdateCommentSchema
UpdateCommentSchema(patch) ==
    patch.status \in {"absent", "draft", "pending", "resolved"}
\* SummarySchema (part_010:357-373): global is present and not empty
InvalidSummary == 0
SummarySchema(summary) == summary # InvalidSummary

Drafts == { Draft(2, e, h) : e \in 0..2, h \in BOOLEAN } \cup { Draft(0, 0, TRUE) }
RawPatches == Patches \cup { Patch(FALSE, "wontfix", FALSE, "absent") }
Summaries == { StoreSummary, InvalidSummary }

\* ------------------------------------------------------------------ paths
\* A requested path: its segments and whether it begins with "/".
Path(abs, segs) == [abs |-> abs, segs |-> segs]
Segments == {"..", "a", "d", "traversal"}
RepoRoot == <<"r">>
\* The files of the working tree (resolved) and of HEAD (relative to the root)
TreeFiles == { <<"r", "a">> }
HeadFiles == { <<"a">>, <<"d">> }

\* path.join(repoRoot, filePath): the segments are put after the root's,
\* also when filePath begins with "/"
join(root, path) == root \o path.segs
\* path.resolve of an absolute path: ".." drops the segment before it and
\* is dropped at the top
RECURSIVE ResolveFrom(_, _)
ResolveFrom(done, rest) ==
    IF rest = <<>> THEN done
    ELSE IF Head(rest) = ".."
         THEN ResolveFrom(IF done = <<>> THEN <<>> ELSE SubSeq(done, 1, Len(done) - 1),
                          Tail(rest))
         ELSE ResolveFrom(Append(done, Head(rest)), Tail(rest))
resolve(segs) == ResolveFrom(<<>>, segs)

\* part_017:144  resolved.startsWith(resolve(repoRoot) + "/")
IsUnderRoot(resolved, root) ==
    /\ Len(resolved) > Len(root)
    /\ SubSeq(resolved, 1, Len(root)) = root

\* An error: its message's text and the path the text quotes
Err(text, segs) == [kind |-> "error", text |-> text, quotes |-> segs]
\* part_017:141-160  getFileContent: the content (the resolved path stands
\* for it) or the error thrown
getFileContent(root, path) ==
    LET resolved == resolve(join(root, path)) IN
    IF ~IsUnderRoot(resolved, resolve(root))
    THEN Err("Path traversal detected", <<>>)
    ELSE IF resolved \in TreeFiles THEN [kind |-> "content", of |-> resolved]
    ELSE IF ~path.abs /\ path.segs \in HeadFiles
         THEN [kind |-> "content", of |-> root \o path.segs]
    ELSE Err("Command failed: git show HEAD:", path.segs)

\* api.ts:121  msg.includes("traversal")
IncludesTraversal(err) ==
    \/ err.text = "Path traversal detected"
    \/ \E i \in 1..Len(err.quotes) : err.quotes[i] = "traversal"

\* ------------------------------------------------------------- broadcast
MaxConns == 2
Conns == 1..MaxConns

\* A mutant of BroadcastLoop: a write that throws ends the loop.
RECURSIVE BroadcastAborting(_, _, _)
BroadcastAborting(todo, live, got) ==
    IF todo = {} THEN [live |-> live, got |-> got, threw |-> FALSE]
    ELSE LET c == CHOOSE x \in todo : \A y \in todo : x <= y IN
         IF c \in broken THEN [live |-> live, got |-> got, threw |-> TRUE]
         ELSE BroadcastAborting(todo \ {c}, live, [got EXCEPT ![c] = @ + 1])
\* part_021:199-209  the loop of broadcast over the connections, in the order
\* of their insertion (here: of their numbers): the connections that stay,
\* how many times each was written to, and whether the loop threw
RECURSIVE BroadcastLoop(_, _, _)
BroadcastLoop(todo, live, got) ==
    IF todo = {} THEN [live |-> live, got |-> got, threw |-> FALSE]
    ELSE LET c == CHOOSE x \in todo : \A y \in todo : x <= y IN
         IF c \in broken
         THEN BroadcastLoop(todo \ {c}, live \ {c}, got)
         ELSE BroadcastLoop(todo \ {c}, live, [got EXCEPT ![c] = @ + 1])

\* part_021:199-209, 227-233  broadcast(event, data): the event, the
\* connections it went through, the writes that returned, whether an
\* exception left it, and the document it carried
Broadcast(event, payload) ==
    LET r == BroadcastLoop(connections, connections, [c \in Conns |-> 0]) IN
    /\ connections' = r.live
    /\ cast' = [event |-> event, to |-> connections, got |-> r.got, threw |-> r.threw,
                data |-> payload]
NoBroadcast == UNCHANGED <<connections, cast>>

\* ------------------------------------------------- the store, call by call
\* What a call of the store leaves: its result, this.data, this.lastMtime,
\* the files and their mtimes, and whether review.json was written.
Kept(res) ==
    [res |-> res, data |-> Reloaded.data, lm |-> Reloaded.lm,
     fs |-> CleanupTmp(fs), mt |-> CleanupTime(CleanupTmp(fs), mt), wrote |-> FALSE]
\* part_020:100-116  writeAtomic(d) from its first line to its last, or to
\* its catch block when writeFileSync or renameSync throws
writeAtomic(d, ioOk) ==
    LET fs2 == RenameFile([fs EXCEPT ![TmpPath] = FileOf(d)], TmpPath, FilePath)
        mt2 == RenameTime([mt EXCEPT ![TmpPath] = clock], TmpPath, FilePath)
    IN  IF ioOk
        THEN [res |-> "ok", data |-> d, lm |-> mt2[FilePath], fs |-> fs2, mt |-> mt2,
              wrote |-> TRUE]
        ELSE Kept("throw:write")

\* part_020:130-137
getData == Kept("ok")
\* part_020:143-171
addComment(id, draft, ioOk) ==
    IF ~Reloaded.ok THEN Kept("throw:reload")
    ELSE writeAtomic(AddDraft(Reloaded.data, id, clock, draft), ioOk)
\* part_020:173-204
updateComment(id, patch, ioOk) ==
    LET idx == FindIndex(Reloaded.data.comments, id) IN
    IF ~Reloaded.ok THEN Kept("throw:reload")
    ELSE IF idx = 0 THEN Kept("notfound")
    ELSE writeAtomic(UpdateIn(Reloaded.data, idx, patch), ioOk)
\* part_020:206-216
deleteComment(id, ioOk) ==
    LET updated == DeleteFrom(Reloaded.data, id) IN
    IF ~Reloaded.ok THEN Kept("throw:reload")
    ELSE IF Len(updated.comments) = Len(Reloaded.data.comments) THEN Kept("notfound")
    ELSE writeAtomic(updated, ioOk)
\* part_020:218-226
setSummary(summary, ioOk) ==
    IF ~Reloaded.ok THEN Kept("throw:reload")
    ELSE writeAtomic(WithSummary(Reloaded.data, summary), ioOk)

\* A mutant of getDataAfter: the document the store held before the call.
getDataBefore(r) == data
\* part_020:130-137, api.ts:197, 210  store.getData() right after the call
\* that left r: reloadIfChanged on the files as r left them
getDataAfter(r) ==
    IF r.fs[FilePath].kind # "none" /\ NeedsReload(r.mt[FilePath], r.lm)
          /\ IsValid(r.fs[FilePath])
    THEN r.fs[FilePath].doc
    ELSE r.data
\* The store and the files after the call that left r.
StoreAfter(r) ==
    /\ data' = r.data
    /\ lastMtime' = r.lm
    /\ fs' = r.fs
    /\ mt' = r.mt
    /\ hist' = IF r.wrote
               THEN [hist EXCEPT !.writer = "store", !.lost = FALSE,
                                 !.stale = (agent.kind = "doc")]
               ELSE hist
StoreUntouched == UNCHANGED <<data, lastMtime, fs, mt, hist>>

\* ---------------------------------------------------------- the requests
\* api.ts:37  maxBytes
MaxBytes == 1048576
\* A request body: its size in bytes, whether JSON.parse accepts it, and the
\* value it parses to.
Body(size, isJson, val) == [size |-> size, isJson |-> isJson, val |-> val]
BodiesOf(vals, good) ==
    { Body(1, TRUE, v) : v \in vals }
      \cup { Body(MaxBytes, TRUE, good), Body(MaxBytes + 1, TRUE, good),
             Body(1, FALSE, good) }
\* api.ts:37-49  readBody returns (it throws above maxBytes)
readBody(body) == body.size <= MaxBytes
\* api.ts:139-141, 159-161, 183-185  the try block of a handler gets to its end
Parsed(body, valid) == readBody(body) /\ body.isJson /\ valid

GoodDraft == Draft(2, 0, TRUE)
DraftBodies == BodiesOf(Drafts, GoodDraft)
PatchBodies == BodiesOf(RawPatches \cup {NoPatch}, NoPatch)
SummaryBodies == BodiesOf(Summaries, StoreSummary)

\* The requests and events that a server handles in a run
MaxReqs == 3
\* One request is handled: index.ts:70-71 hands it to handleApiRequest.
Request ==
    /\ listening
    /\ pc = "idle"
    /\ ops < MaxReqs
    /\ ops' = ops + 1
    /\ UNCHANGED <<clock, backups, repoBranch, repo, base, pc, wdoc, cur, out, agent, ret,
                   listening, broken, ended, subs, watcher, onChange, fileWatcher,
                   calls>>
\* res.writeHead(status) and the body sent; status 0: the handler threw and
\* nothing was sent
Answer(req, status, sent) == resp' = [req |-> req, status |-> status, sent |-> sent]
\* api.ts:51-62, 94  the request does not get past checkToken
Denied(req, t) ==
    /\ Answer(req, IF checkToken(t) = "401" THEN 401 ELSE 0, Nothing)
    /\ StoreUntouched
    /\ NoBroadcast

\* api.ts:73-83  OPTIONS on any path: answered before the token is looked at
Options(t) ==
    /\ Request
    /\ Answer("OPTIONS", 204, Nothing)
    /\ StoreUntouched
    /\ NoBroadcast

\* api.ts:86-90, part_021:211-225  GET /sse
Sse(t) ==
    /\ Request
    /\ IF checkToken(t) # "ok" THEN Denied("GET /sse", t)
       ELSE /\ \E c \in Conns \ (connections \cup broken \cup ended) :
                 connections' = connections \cup {c}
            /\ Answer("GET /sse", 200, Nothing)
            /\ StoreUntouched
            /\ UNCHANGED cast

\* api.ts:86, 92; index.ts:71-95  /sse with another method: the facade says
\* "not handled" without looking at the token, the static files answer
SseOther(t) ==
    /\ Request
    /\ Answer("POST /sse", 200, Nothing)
    /\ StoreUntouched
    /\ NoBroadcast

\* api.ts:131-134  GET /api/comments
ApiGetComments(t) ==
    /\ Request
    /\ IF checkToken(t) # "ok" THEN Denied("GET /api/comments", t)
       ELSE /\ StoreAfter(getData)
            /\ Answer("GET /api/comments", 200, Document)
            /\ NoBroadcast

\* A mutant of Done: the broadcast does not depend on what the store returned.
DoneBroadcasting(req, r, okStatus, payload) ==
    /\ StoreAfter(r)
    /\ Broadcast("comments-updated", payload)
    /\ Answer(req, IF r.res = "ok" THEN okStatus
                   ELSE IF r.res = "notfound" THEN 404 ELSE 500, Nothing)
\* The end of a handler that called the store and got r: 500 when the store
\* threw inside the handler's try block, else the broadcast and the answer.
Done(req, r, okStatus, payload) ==
    /\ StoreAfter(r)
    /\ IF r.res = "ok"
       THEN /\ Broadcast("comments-updated", payload)
            /\ Answer(req, okStatus, Document)
       ELSE /\ NoBroadcast
            /\ Answer(req, IF r.res = "notfound" THEN 404 ELSE 500, Nothing)

\* api.ts:137-154  POST /api/comments
ApiAddComment(t, body) ==
    /\ Request
    /\ IF checkToken(t) # "ok" THEN Denied("POST /api/comments", t)
       ELSE IF ~Parsed(body, AddCommentSchema(body.val))
       THEN /\ Answer("POST /api/comments", 400, Nothing)
            /\ StoreUntouched
            /\ NoBroadcast
       ELSE /\ Len(Reloaded.data.comments) < MaxComments
            /\ \E id \in Ids, ioOk \in BOOLEAN :
                 LET updated == addComment(id, body.val, ioOk) IN
                 Done("POST /api/comments", updated, 201, updated.data)

\* api.ts:156-173  POST /api/summary
ApiSummary(t, body) ==
    /\ Request
    /\ IF checkToken(t) # "ok" THEN Denied("POST /api/summary", t)
       ELSE IF ~Parsed(body, SummarySchema(body.val))
       THEN /\ Answer("POST /api/summary", 400, Nothing)
            /\ StoreUntouched
            /\ NoBroadcast
       ELSE \E ioOk \in BOOLEAN :
                 LET updated == setSummary(body.val, ioOk) IN
                 Done("POST /api/summary", updated, 201, updated.data)

\* api.ts:181-202  PATCH /api/comments/:id
ApiPatch(t, id, body) ==
    /\ Request
    /\ IF checkToken(t) # "ok" THEN Denied("PATCH /api/comments/:id", t)
       ELSE IF ~Parsed(body, UpdateCommentSchema(body.val))
       THEN /\ Answer("PATCH /api/comments/:id", 400, Nothing)
            /\ StoreUntouched
            /\ NoBroadcast
       ELSE /\ LET idx == FindIndex(Reloaded.data.comments, id) IN
                 (idx # 0 /\ body.val.reply)
                     => Len(Reloaded.data.comments[idx].thread) < MaxThread
            /\ \E ioOk \in BOOLEAN :
                 LET r == updateComment(id, body.val, ioOk) IN
                 Done("PATCH /api/comments/:id", r, 200, getDataAfter(r))

\* api.ts:204-213  DELETE /api/comments/:id: the store is called outside any
\* try block, so what it throws leaves the handler
ApiDelete(t, id) ==
    /\ Request
    /\ IF checkToken(t) # "ok" THEN Denied("DELETE /api/comments/:id", t)
       ELSE \E ioOk \in BOOLEAN :
              LET r == deleteComment(id, ioOk) IN
              IF r.res \in {"ok", "notfound"}
              THEN Done("DELETE /api/comments/:id", r, 200, getDataAfter(r))
              ELSE /\ StoreAfter(r)
                   /\ NoBroadcast
                   /\ Answer("DELETE /api/comments/:id", 0, Nothing)

\* The paths a client asks for; NoPath: the query has no path parameter.
MaxPath == 2
NoPath == Path(FALSE, <<>>)
SegsUpTo(n) == UNION { [1..k -> Segments] : k \in 1..n }
ReqPaths == { Path(abs, segs) : abs \in BOOLEAN, segs \in SegsUpTo(MaxPath) }

\* api.ts:109-128  GET /api/file
ApiFile(t, path) ==
    /\ Request
    /\ StoreUntouched
    /\ NoBroadcast
    /\ IF checkToken(t) # "ok"
       THEN Answer("GET /api/file", IF checkToken(t) = "401" THEN 401 ELSE 0, Nothing)
       ELSE IF path = NoPath THEN Answer("GET /api/file", 400, Nothing)
       ELSE LET r == getFileContent(RepoRoot, path) IN
            IF r.kind = "content" THEN Answer("GET /api/file", 200, r)
            ELSE IF IncludesTraversal(r) THEN Answer("GET /api/file", 403, Nothing)
            ELSE Answer("GET /api/file", 404, Nothing)

\* ------------------------------------------------------- the connections
\* part_021:221-223  the client closes its connection
ClientClose(c) ==
    /\ c \in connections
    /\ ops < MaxReqs
    /\ ops' = ops + 1
    /\ connections' = connections \ {c}
    /\ UNCHANGED <<clock, fs, mt, backups, repoBranch, repo, base, pc, data, lastMtime, wdoc,
                   cur, out, agent, hist, ret, listening, broken, ended, cast, resp,
                   subs, watcher, onChange, fileWatcher, calls>>

\* The socket of a live connection fails: from now on write() and end()
\* throw on it.
Break(c) ==
    /\ c \in connections \ broken
    /\ broken' = broken \cup {c}
    /\ UNCHANGED <<clock, fs, mt, backups, repoBranch, repo, base, pc, data, lastMtime, wdoc,
                   cur, out, agent, hist, ops, ret, listening, connections, ended,
                   cast, resp, subs, watcher, onChange, fileWatcher, calls>>

\* A mutant of closeAllConnections: an end() that throws ends the loop and
\* leaves the set as it is.
closeUntilThrow ==
    IF connections \cap broken = {}
    THEN ended' = ended \cup connections /\ connections' = {}
    ELSE UNCHANGED <<ended, connections>>
\* part_021:239-246  closeAllConnections
closeAllConnections ==
    /\ ended' = ended \cup connections
    /\ connections' = {}

\* ------------------------------------------------------------ the watches
MaxSubs == 2
Subs == 1..MaxSubs
\* index.ts:42-44  the callback the server registers
ServerCallback == 1

\* part_020:228-238  startWatching(callback): a new subscription
startWatching(callback) ==
    /\ onChange' = callback
    /\ \E s \in Subs \ subs :
         /\ watcher' = s
         /\ subs' = subs \cup {s}
\* part_020:240-244  stopWatching
stopWatching ==
    /\ subs' = subs \ {watcher}
    /\ watcher' = 0
    /\ onChange' = 0

\* A user of the store calls startWatching.
StartWatching ==
    /\ pc = "idle"
    /\ ops < MaxOps
    /\ ops' = ops + 1
    /\ startWatching(ServerCallback)
    /\ UNCHANGED <<clock, fs, mt, backups, repoBranch, repo, base, pc, data, lastMtime, wdoc,
                   cur, out, agent, hist, ret, listening, connections, broken,
                   ended, cast, resp, fileWatcher, calls>>

\* A user of the store calls stopWatching.
StopWatching ==
    /\ pc = "idle"
    /\ ops < MaxOps
    /\ ops' = ops + 1
    /\ stopWatching
    /\ UNCHANGED <<clock, fs, mt, backups, repoBranch, repo, base, pc, data, lastMtime, wdoc,
                   cur, out, agent, hist, ret, listening, connections, broken,
                   ended, cast, resp, fileWatcher, calls>>

\* part_020:235-238, index.ts:42-44  subscription s reports a change of
\* review.json: the store reloads and, unless that throws, invokes the
\* callback it holds, which broadcasts the document.  Nothing catches what
\* reloadIfChanged throws: it leaves the listener (out: "throw:reload").
WatchHandler(s) ==
    /\ s \in subs
    /\ pc = "idle"
    /\ StoreAfter(getData)
    /\ out' = IF Reloaded.ok THEN "ok" ELSE "throw:reload"
    /\ IF Reloaded.ok /\ onChange # 0
       THEN Broadcast("comments-updated", Reloaded.data)
       ELSE NoBroadcast
    /\ UNCHANGED <<clock, backups, repoBranch, repo, base, pc, wdoc, cur, agent, ret,
                   listening, broken, ended, resp, subs, watcher, onChange,
                   fileWatcher>>
\* One of the change events of a run, counted; calls counts the invocations
\* of the callback.
WatchEvent(s) ==
    /\ ops < MaxReqs
    /\ ops' = ops + 1
    /\ calls' = IF Reloaded.ok /\ onChange # 0 THEN calls + 1 ELSE calls
    /\ WatchHandler(s)
\* A change event of a run in which the watcher goes on delivering them.
Delivery(s) ==
    /\ WatchHandler(s)
    /\ UNCHANGED <<ops, calls>>

\* index.ts:59-61  a file of the diff changes
FileWatchEvent ==
    /\ fileWatcher
    /\ ops < MaxReqs
    /\ ops' = ops + 1
    /\ Broadcast("diff-changed", NoData)
    /\ UNCHANGED <<clock, fs, mt, backups, repoBranch, repo, base, pc, data, lastMtime, wdoc,
                   cur, out, agent, hist, ret, listening, broken, ended, resp, subs,
                   watcher, onChange, fileWatcher, calls>>

\* index.ts:47-61  a file of the current diff changes on disk.  The watch is
\* on the files that getDiff listed when startServer ran (atStartup); a file
\* that is in the diff now and was not then has no listener.
DiffFileChange(atStartup) ==
    IF atStartup
    THEN FileWatchEvent
    ELSE /\ ops < MaxReqs
         /\ ops' = ops + 1
         /\ UNCHANGED <<clock, fs, mt, backups, repoBranch, repo, base, pc, data, lastMtime,
                        wdoc, cur, out, agent, hist, ret, listening, connections,
                        broken, ended, cast, resp, subs, watcher, onChange,
                        fileWatcher, calls>>

\* index.ts:115-120  close()
Close ==
    /\ listening
    /\ pc = "idle"
    /\ ops < MaxReqs
    /\ ops' = ops + 1
    /\ closeAllConnections
    /\ stopWatching
    /\ fileWatcher' = FALSE
    /\ listening' = FALSE
    /\ UNCHANGED <<clock, fs, mt, backups, repoBranch, repo, base, pc, data, lastMtime, wdoc,
                   cur, out, agent, hist, ret, broken, cast, resp, calls>>

\* --------------------------------------------------- the specifications
\* The store after new ReviewStore(root, ref, branch) in a repository that
\* had no review.json (part_020:14-17, 56-66).
StoreOpened ==
    /\ clock = 1
    /\ fs = [p \in Paths |-> IF p = FilePath THEN FileOf(emptyReview(Ref, Main))
                                             ELSE NoFile]
    /\ mt = [p \in Paths |-> IF p = FilePath THEN 1 ELSE 0]
    /\ backups = {}
    /\ repoBranch = Main
    /\ pc = "idle"
    /\ data = emptyReview(Ref, Main)
    /\ lastMtime = 1
    /\ wdoc = NoData
    /\ cur = NoOp
    /\ out = "ok"
    /\ agent = NoFile
    /\ hist = [Hist0 EXCEPT !.branch = Main, !.writer = "store", !.opened = {Main}]
    /\ ops = 0
    /\ ret = NoRet

\* index.ts:30-103  startServer has resolved: the store is open and watched,
\* the diff's files are watched if there are any, the server listens.
ServerInit ==
    /\ StoreOpened
    /\ listening = TRUE /\ connections = {} /\ broken = {} /\ ended = {}
    /\ cast = NoCast /\ resp = NoResp
    /\ subs = {1} /\ watcher = 1 /\ onChange = ServerCallback
    /\ fileWatcher \in BOOLEAN
    /\ calls = 0
    /\ repo = NoRepo /\ base = NotCalled

\* The requests that are sent: with the server's token any of them, with
\* another token the few that are usual (the facade looks at nothing else of
\* a request before it has accepted the token).
Sent(t, usual) == t = Expected \/ usual
AddRequests ==
    { r \in [t : Tokens, body : DraftBodies] : Sent(r.t, r.body.val = GoodDraft) }
SummaryRequests ==
    { r \in [t : Tokens, body : SummaryBodies] : Sent(r.t, r.body.val = StoreSummary) }
PatchRequests ==
    { r \in [t : Tokens, id : Ids, body : PatchBodies] :
        Sent(r.t, r.body.val = NoPatch /\ r.id = 1) }
FileRequests ==
    { r \in [t : Tokens, path : ReqPaths \cup {NoPath}] :
        Sent(r.t, Len(r.path.segs) <= 1) }

ServerNext ==
    \/ \E t \in Tokens : Options(t)
    \/ \E t \in Tokens : Sse(t)
    \/ \E t \in Tokens : SseOther(t)
    \/ \E t \in Tokens : ApiGetComments(t)
    \/ \E r \in AddRequests : ApiAddComment(r.t, r.body)
    \/ \E r \in SummaryRequests : ApiSummary(r.t, r.body)
    \/ \E r \in PatchRequests : ApiPatch(r.t, r.id, r.body)
    \/ \E t \in Tokens, id \in Ids : ApiDelete(t, id)
    \/ \E r \in FileRequests : ApiFile(r.t, r.path)
    \/ \E c \in Conns : ClientClose(c)
    \/ \E c \in Conns : Break(c)
    \/ \E s \in Subs : WatchEvent(s)
    \/ \E atStartup \in BOOLEAN : DiffFileChange(atStartup)
    \/ Close
    \/ Tick
    \/ CorruptWrite

ServerSpec == ServerInit /\ [][ServerNext]_vars

\* The store and the callers of its watch functions.
WatchInit == StoreOpened /\ NoServer

WatchNext ==
    \/ StartWatching
    \/ StopWatching
    \/ \E s \in Subs : WatchEvent(s)
    \/ Tick
    \/ AgentRead
    \/ \E e \in AgentEdits : AgentWrite(e)
    \/ CorruptWrite

WatchSpec == WatchInit /\ [][WatchNext]_vars

\* The server with its viewers and the agent, the watcher delivering a
\* change event for whatever was written (index.ts:42-44, part_020:228-238).
LiveNext ==
    \/ Sse(Expected)
    \/ \E c \in Conns : ClientClose(c)
    \/ \E c \in Conns : Break(c)
    \/ Tick
    \/ AgentRead
    \/ \E e \in AgentEdits : AgentWrite(e)
    \/ \E s \in Subs : Delivery(s)

LiveSpec ==
    /\ ServerInit
    /\ [][LiveNext]_vars
    /\ WF_vars(\E s \in Subs : Delivery(s))

\* The diff service resolving the base of the diff in some repository.
\* part_017:41-78  getMergeBase is called; the fetch ends one way or another
GetMergeBase(outcome) ==
    /\ ~base.called
    /\ repo' = Fetch(repo, outcome)
    /\ base' = Result(outcome, getMergeBase(repo, outcome))
    /\ UNCHANGED <<storeVars, listening, connections, broken, ended, cast, resp,
                   subs, watcher, onChange, fileWatcher, calls>>

MergeInit ==
    /\ StoreOpened
    /\ listening = FALSE /\ connections = {} /\ broken = {} /\ ended = {}
    /\ cast = NoCast /\ resp = NoResp
    /\ subs = {} /\ watcher = 0 /\ onChange = 0 /\ fileWatcher = FALSE
    /\ calls = 0
    /\ repo \in Repos /\ base = NotCalled

MergeNext == \E outcome \in FetchOutcomes : GetMergeBase(outcome)

MergeSpec == MergeInit /\ [][MergeNext]_vars

\* ================================================================ properties
\* A public operation of the store is called (its first step).
StoreCall ==
    \/ GetData
    \/ \E id \in Ids : AddComment(id)
    \/ \E id \in Ids, patch \in Patches : UpdateComment(id, patch)
    \/ \E id \in Ids : DeleteComment(id)
    \/ SetSummary(StoreSummary)
\* A mutation is called and gets as far as writing.
MutationStarts == pc = "idle" /\ pc' = "tmp1"
\* A store is constructed.
StoreOpens == \E renameOk \in BOOLEAN : Open(renameOk)
\* The comment with the given id in a document that has one.
CommentOf(d, id) == d.comments[FindIndex(d.comments, id)]
HasComment(d, id) == FindIndex(d.comments, id) > 0
Comments(d) == {d.comments[i] : i \in 1..Len(d.comments)}
OnDisk == fs[FilePath]

\* C1: a document with at least one comment that a store operation wrote
\* last has status "resolved" exactly when all its comments are resolved.
C1_StatusIffAllResolved ==
    (hist.writer = "store" /\ IsValid(OnDisk) /\ Len(OnDisk.doc.comments) >= 1)
        => (OnDisk.doc.status = "resolved" <=> AllResolved(OnDisk.doc.comments))

\* C2: updateComment with a reply on a resolved comment of a resolved
\* document leaves the comment pending and the document submitted.
C2_ReplyReopensDocument ==
    [][ ( /\ StatAfterWrite
          /\ cur.op = "update" /\ cur.patch.reply /\ cur.patch.status = "absent"
          /\ data.status = "resolved"
          /\ HasComment(data, cur.id)
          /\ CommentOf(data, cur.id).status = "resolved" )
        => ( /\ CommentOf(data', cur.id).status = "pending"
             /\ data'.status = "submitted" ) ]_vars

\* C3: when the agent's write was complete, and its mtime later than the
\* store's last-seen mtime, before a mutation began, the document the mutation
\* persists holds every comment, thread entry and summary of the agent's
\* document that the mutation itself does not replace, and the mutation's change.
KeepsAgentDocument(o, pre, post) ==
    /\ \A c \in Comments(pre) :
          IF o.op \in {"update", "delete"} /\ c.id = o.id
          THEN o.op = "update" =>
                  \E q \in Comments(post) :
                      /\ q.id = c.id /\ Len(q.thread) >= Len(c.thread)
                      /\ SubSeq(q.thread, 1, Len(c.thread)) = c.thread
          ELSE c \in Comments(post)
    /\ o.op # "summary" => post.summary = pre.summary
    /\ post.branch = pre.branch /\ post.submittedAt >= pre.submittedAt
    /\ CASE o.op = "add"     -> post.comments[Len(post.comments)].id = o.id
         [] o.op = "update"  -> CommentOf(post, o.id)
                                    = ApplyPatch(CommentOf(pre, o.id), o.patch)
         [] o.op = "delete"  -> ~HasComment(post, o.id)
         [] o.op = "summary" -> post.summary = o.id
C3_MutationKeepsAgentWrite ==
    [][ (RenameTmp /\ cur.op \in MutationOps /\ hist.fresh)
        => ( /\ IsValid(fs'[FilePath])
             /\ KeepsAgentDocument(cur, hist.pre.doc, fs'[FilePath].doc) ) ]_vars
\* An agent's reply and the store's summary end up in one document.
C3_Witness ==
    /\ hist.fresh /\ pc = "stat" /\ cur.op = "summary"
    /\ IsValid(OnDisk) /\ OnDisk.doc.summary = StoreSummary
    /\ \E c \in Comments(OnDisk.doc) : c.thread = <<"ai">>

\* C4 (as claimed): after the agent has overwritten a store write it had not
\* read, the document on disk is the agent's, no operation fails, and the
\* next store operation adopts the document on disk.
C4_LostWriteAdopted ==
    [][ (hist.lost /\ StoreCall)
        => ( /\ hist.writer = "agent" /\ IsValid(OnDisk)
             /\ out' # "throw:reload"
             /\ data' = OnDisk.doc ) ]_vars
\* C4 (amended): the same, but the next store operation adopts the agent's
\* document only if the file's mtime is then later than the store's last-seen
\* mtime; otherwise it keeps the document it has.
C4_LostWriteAdoptedWhenNewer ==
    [][ (hist.lost /\ StoreCall)
        => ( /\ hist.writer = "agent" /\ IsValid(OnDisk)
             /\ out' # "throw:reload"
             /\ data' = IF mt[FilePath] > lastMtime THEN OnDisk.doc ELSE data ) ]_vars
\* The store has adopted the agent's document after its own write was lost.
C4_Witness ==
    /\ hist.lost /\ pc = "idle" /\ out = "ok"
    /\ IsValid(OnDisk) /\ data = OnDisk.doc /\ lastMtime = mt[FilePath]
    /\ data.summary = AgentSummary

\* C5: no step of writeAtomic changes what a reader of review.json gets,
\* except the rename, which replaces it by the complete new document; and a
\* reader never holds a partly written document.
WriteAtomicStep ==
    \/ StoreCall /\ MutationStarts
    \/ WriteTmpEnd \/ WriteFail \/ RenameTmp \/ RenameFail \/ StatAfterWrite
C5_ReaderSeesWholeDocument ==
    [][ /\ agent'.kind # "partial"
        /\ WriteAtomicStep =>
              \/ fs'[FilePath] = fs[FilePath]
              \/ RenameTmp /\ fs'[FilePath] = FileOf(wdoc) ]_vars
\* The agent read during a write, after the rename: it has the new document.
C5_Witness ==
    /\ pc = "stat" /\ cur.op \in MutationOps
    /\ agent = FileOf(wdoc) /\ OnDisk = agent /\ hist.pre # agent

Adopted(d, branch) == IF d.branch = NoBranch THEN [d EXCEPT !.branch = branch] ELSE d
C7_CrashRecoverable ==
    [][ ( /\ StoreOpens
          /\ hist.crashed = "crashed" /\ ~hist.ext
          /\ hist.pre.kind \in {"doc", "none"}
          /\ repoBranch = hist.branch
          /\ repoBranch = HEAD \/ hist.post.branch = repoBranch )
        => ( /\ backups' = backups
             /\ LET res == IF pc' = "idle" THEN data' ELSE wdoc'
                IN  \/ res = Adopted(hist.post, repoBranch)
                    \/ IsValid(hist.pre) /\ res = Adopted(hist.pre.doc, repoBranch) ) ]_vars
\* Stopped before the rename: the earlier document, with its comments, is back.
C7_Witness ==
    /\ hist.crashed = "reloaded" /\ pc = "idle" /\ out = "loaded"
    /\ IsValid(hist.pre) /\ data = hist.pre.doc /\ data # hist.post
    /\ Len(data.comments) > 0

\* C8: opening a store on a named branch B while review.json holds a
\* document of another branch A, when the backup rename succeeds, moves that
\* document to a backup named after the sanitized A and writes an empty draft
\* document of branch B, which the store then holds.
ExpectedBackupBranch(b) == IF b = Feature THEN <<"f", "-", "x">> ELSE b
C8_BranchSwitchResets ==
    [][ /\ ( /\ StoreOpens
             /\ IsValid(OnDisk) /\ OnDisk.doc.branch \notin {NoBranch, repoBranch}
             /\ repoBranch # HEAD
             /\ out' # "kept" )
           => ( /\ pc' = "tmp1" /\ cur'.op = "load:switch"
                /\ wdoc' = [round |-> 1, status |-> "draft", ref |-> Ref,
                            branch |-> repoBranch, submittedAt |-> NullTs,
                            comments |-> <<>>, summary |-> 0]
                /\ fs'[FilePath] = NoFile
                /\ \E b \in backups' \ backups :
                      /\ b.content = OnDisk
                      /\ b.name.branch = ExpectedBackupBranch(OnDisk.doc.branch) )
        /\ (StatAfterWrite /\ cur.op = "load:switch")
           => (data' = wdoc /\ fs'[FilePath] = fs[FilePath]) ]_vars
\* A store on "m" after a document of "f/x" with a comment was backed up.
C8_Witness ==
    /\ pc = "idle" /\ out = "ok" /\ hist.branch = Main
    /\ data.branch = Main /\ data.comments = <<>> /\ data.status = "draft"
    /\ OnDisk = FileOf(data)
    /\ \E b \in backups :
          /\ b.name.branch = <<"f", "-", "x">>
          /\ IsValid(b.content) /\ Len(b.content.doc.comments) > 0

\* C9: a mutation that adds or changes a comment while the working copy is on
\* a named branch writes a document of that branch.
C9_CommentsOnCurrentBranch ==
    [][ ( /\ StoreCall /\ MutationStarts
          /\ cur'.op \in {"add", "update"}
          /\ repoBranch \in NamedBranches )
        => wdoc'.branch = repoBranch ]_vars

\* C10: opening a store in detached HEAD while review.json holds a document
\* of branch A makes no backup, changes no file and loads that document.
C10_DetachedHeadKeepsDocument ==
    [][ ( /\ StoreOpens
          /\ repoBranch = HEAD
          /\ IsValid(OnDisk) /\ OnDisk.doc.branch # NoBranch )
        => ( /\ backups' = backups /\ fs' = fs
             /\ pc' = "idle" /\ out' = "loaded"
             /\ data' = OnDisk.doc ) ]_vars
\* A store opened in detached HEAD holds the comments of a named branch.
C10_Witness ==
    /\ pc = "idle" /\ out = "loaded" /\ hist.branch = HEAD
    /\ data.branch \in NamedBranches /\ Len(data.comments) > 0
    /\ OnDisk = FileOf(data) /\ backups = {}

\* C11: when every store of the repository was opened on one named branch B
\* or in detached HEAD, and no foreign file was put at the path, an opening
\* makes no backup, resets nothing and loads the document on disk as it is.
C11_NamedOrDetachedNeverResets ==
    [][ ( /\ StoreOpens
          /\ ~hist.foreign
          /\ \E B \in NamedBranches : hist.opened \cup {repoBranch} \subseteq {B, HEAD} )
        => ( /\ backups' = backups
             /\ cur'.op \notin {"load:switch", "load:corrupt"}
             /\ out' # "kept"
             /\ IsValid(OnDisk) => (data' = OnDisk.doc /\ fs'[FilePath] = OnDisk) ) ]_vars

\* C12: opening a store on a valid document without branch writes that
\* document with the current branch and every other field and comment as
\* it was, makes no backup, and the store then holds the written document.
C12_LegacyAdoptsBranch ==
    [][ /\ (StoreOpens /\ IsValid(OnDisk) /\ OnDisk.doc.branch = NoBranch)
           => ( /\ pc' = "tmp1" /\ cur'.op = "load:migrate"
                /\ wdoc'.branch = repoBranch
                /\ \A k \in {"round", "status", "ref", "submittedAt", "comments", "summary"} :
                      wdoc'[k] = OnDisk.doc[k]
                /\ backups' = backups
                /\ fs'[FilePath] = OnDisk )
        /\ (RenameTmp /\ cur.op = "load:migrate")
           => (fs'[FilePath] = FileOf(wdoc) /\ backups' = backups)
        /\ (StatAfterWrite /\ cur.op = "load:migrate")
           => (data' = wdoc /\ backups' = backups) ]_vars
\* A store on "m" holds the comment of a document that had no branch.
C12_Witness ==
    /\ pc = "idle" /\ out = "ok" /\ hist.branch = Main /\ hist.opened = {Main}
    /\ data.branch = Main /\ Len(data.comments) = 1
    /\ OnDisk = FileOf(data) /\ backups = {}

\* C13: opening a store on a file that does not parse or validate, when the
\* backup rename succeeds and no backup has the name, moves the file to one
\* new backup, keeps the other backups and writes an empty draft document,
\* which the store then holds.
C13_CorruptionBackedUp ==
    [][ /\ ( /\ Open(TRUE)
             /\ OnDisk.kind # "none" /\ ~IsValid(OnDisk)
             /\ \A b \in backups : b.name # BackupName(<<>>, clock) )
           => ( /\ pc' = "tmp1" /\ cur'.op = "load:corrupt"
                /\ wdoc'.status = "draft" /\ wdoc'.comments = <<>>
                /\ wdoc'.submittedAt = NullTs /\ wdoc'.branch = repoBranch
                /\ backups \subseteq backups'
                /\ Cardinality(backups' \ backups) = 1
                /\ \A b \in backups' \ backups : b.content = OnDisk )
        /\ (StatAfterWrite /\ cur.op = "load:corrupt")
           => (data' = wdoc /\ pc' = "idle" /\ out' = "ok") ]_vars
\* A store holds an empty draft and the invalid bytes are in a backup.
C13_Witness ==
    /\ pc = "idle" /\ out = "ok"
    /\ data.status = "draft" /\ data.comments = <<>> /\ OnDisk = FileOf(data)
    /\ Cardinality(backups) = 1 /\ \A b \in backups : b.content = Corrupt

\* C14: a store operation that finds invalid bytes in review.json reports no
\* failure and recovers the file by backup-and-reset.
C14_CorruptionNeverSurfaces ==
    [][ /\ (StoreOpens /\ OnDisk.kind = "corrupt") => cur'.op = "load:corrupt"
        /\ (StoreCall /\ OnDisk.kind = "corrupt" /\ mt[FilePath] > lastMtime)
           => ( /\ out' # "throw:reload"
                /\ backups' # backups
                /\ IsValid(fs'[FilePath]) ) ]_vars

\* C15: getData called while review.json holds a valid document with an mtime
\* later than the store's last-seen mtime returns that document, in the
\* running store, which from then on holds it.
C15_GetDataSeesExternalWrite ==
    [][ (GetData /\ IsValid(OnDisk) /\ mt[FilePath] > lastMtime)
        => ( /\ ret'.from = "getData" /\ ret'.doc = OnDisk.doc
             /\ data' = OnDisk.doc /\ lastMtime' = mt[FilePath]
             /\ pc = "idle" /\ pc' = "idle" /\ out' = "ok" ) ]_vars
\* getData has returned the document with the summary the agent wrote.
C15_Witness ==
    /\ ret.from = "getData" /\ hist.writer = "agent"
    /\ ret.doc.summary = AgentSummary /\ OnDisk = FileOf(ret.doc)
    /\ data = ret.doc /\ pc = "idle"

\* C16: a caller changing the document it got from getData changes neither
\* the store's document nor the files, and a later getData that does not
\* reload returns the store's unchanged document.
C16_ReturnedDocumentIsACopy ==
    [][ /\ (\E k \in Scribbles : CallerMutate(k))
           => UNCHANGED <<data, lastMtime, fs, mt, backups, pc, wdoc>>
        /\ (GetData /\ ret.from = "getData" /\ ret.touched /\ ~ReadsFile)
           => (ret'.doc = data /\ data' = data /\ ret'.doc # ret.doc) ]_vars
\* The caller holds a changed document; the store's document is as it was.
C16_Witness ==
    /\ ret.from = "getData" /\ ret.touched /\ pc = "idle"
    /\ ret.doc # data /\ Len(data.comments) > 0
    /\ ret.doc.comments[1].body = "scribbled" /\ data.comments[1].body = "orig"
    /\ OnDisk = FileOf(data)

\* C17: a getData that follows a getData with no write to review.json in
\* between returns a document equal to the first one's and does not read the
\* file's content.
C17_GetDataIdempotent ==
    [][ (GetData /\ ret.from = "getData" /\ ~ret.touched)
        => (ret'.doc = ret.doc /\ ~ReadsFile) ]_vars

\* C18: no two comments of a document have the same id: an addComment on a
\* document with distinct ids yields a document with distinct ids, whose last
\* comment is the new one, pending and with an empty thread, after all the
\* earlier comments in their places.
UniqueIds(cs) == \A i, j \in 1..Len(cs) : cs[i].id = cs[j].id => i = j
C19_SubmittedAtSetOnce ==
    [][ /\ (StoreOpens /\ cur'.op \in {"load:create", "load:corrupt", "load:switch"})
           => wdoc'.submittedAt = NullTs
        /\ (StoreCall /\ MutationStarts)
           => wdoc'.submittedAt =
                 IF data'.submittedAt # NullTs THEN data'.submittedAt
                 ELSE IF cur'.op = "add" THEN clock ELSE NullTs
        /\ (StatAfterWrite /\ cur.op \in MutationOps)
           => (data'.submittedAt = wdoc.submittedAt /\ clock # NullTs) ]_vars
\* A second comment is added later than the first: submittedAt is the first's.
C19_Witness ==
    /\ pc = "stat" /\ cur.op = "add" /\ Len(wdoc.comments) = 2
    /\ wdoc.submittedAt # NullTs /\ wdoc.submittedAt < clock
    /\ OnDisk = FileOf(wdoc)

\* C20: every comment of a document that a store operation wrote has status
\* "pending" or "resolved".
C20_CommentStatusPendingOrResolved ==
    (hist.writer = "store" /\ IsValid(OnDisk))
        => \A c \in Comments(OnDisk.doc) : c.status \in {"pending", "resolved"}

\* C21: an updateComment whose patch carries a reply writes the comment with
\* status "pending", whatever else the patch carries.
C21_ReplyMakesPending ==
    [][ ( /\ StoreCall /\ MutationStarts
          /\ cur'.op = "update" /\ cur'.patch.reply )
        => CommentOf(wdoc', cur'.id).status = "pending" ]_vars

\* C22: after a successful updateComment, the updated comment, if its status
\* is "resolved", has a resolvedAt timestamp.
C22_ResolvedHasTimestamp ==
    [][ (StatAfterWrite /\ cur.op = "update")
        => ( CommentOf(data', cur.id).status = "resolved"
                => CommentOf(data', cur.id).resolvedAt # "null" ) ]_vars

\* ------------------------------------------------------------- the server
\* The document the store works on when a call begins has no comment id.
Unknown(id) == Reloaded.ok /\ FindIndex(Reloaded.data.comments, id) = 0

\* C23: a PATCH or DELETE of /api/comments/:id with an id that no comment of
\* the document has is answered 404 (updateComment returned null,
\* deleteComment false), review.json is not written and nothing is broadcast.
C23_NotFoundNoEffect ==
    [][ \A id \in Ids :
          ( /\ Unknown(id)
            /\ resp'.status # 400
            /\ \/ resp'.req = "DELETE /api/comments/:id" /\ ApiDelete(Expected, id)
               \/ /\ resp'.req = "PATCH /api/comments/:id"
                  /\ \E body \in PatchBodies : ApiPatch(Expected, id, body) )
          => /\ resp'.status = 404
             /\ fs' = fs /\ mt' = mt
             /\ cast' = cast /\ connections' = connections ]_vars
\* A DELETE of an unknown id was answered while the document has a comment
\* and a connection is live.
C23_Witness ==
    /\ resp.req = "DELETE /api/comments/:id" /\ resp.status = 404
    /\ Len(data.comments) > 0 /\ ~HasComment(data, 2)
    /\ connections # {}

\* A request with the server's token whose body violates its schema, is not
\* JSON, or is larger than 1 MB is handled.
InvalidRequest ==
    \/ /\ resp'.req = "POST /api/comments"
       /\ \E body \in DraftBodies :
            ~Parsed(body, AddCommentSchema(body.val)) /\ ApiAddComment(Expected, body)
    \/ /\ resp'.req = "POST /api/summary"
       /\ \E body \in SummaryBodies :
            ~Parsed(body, SummarySchema(body.val)) /\ ApiSummary(Expected, body)
    \/ /\ resp'.req = "PATCH /api/comments/:id"
       /\ \E id \in Ids, body \in PatchBodies :
            ~Parsed(body, UpdateCommentSchema(body.val)) /\ ApiPatch(Expected, id, body)

\* C24: a draft, patch or summary that violates its schema (a draft with
\* endLine < line among them) and a body above 1 MB are answered 400 with
\* the document on disk and in memory unchanged and nothing broadcast; and
\* no comment of review.json has endLine < line.
C24_InvalidRejectedBeforeStore ==
    /\ [](IsValid(OnDisk) => \A c \in Comments(OnDisk.doc) : c.endLine >= c.line)
    /\ [][ InvalidRequest
           => /\ resp'.status = 400
              /\ fs' = fs /\ mt' = mt /\ data' = data /\ lastMtime' = lastMtime
              /\ cast' = cast /\ connections' = connections ]_vars
\* A POST /api/comments was answered 400 while the document has a comment and
\* a connection is live.
C24_Witness ==
    /\ resp.req = "POST /api/comments" /\ resp.status = 400
    /\ Len(data.comments) > 0 /\ IsValid(OnDisk) /\ OnDisk.doc = data
    /\ connections # {}

\* The resolved form of a requested path, as path.resolve(root, p) gives it:
\* an absolute p stands for itself, a relative one is taken from the root.
ResolvedForm(root, path) ==
    IF path.abs THEN resolve(path.segs) ELSE resolve(root \o path.segs)
Escapes(root, path) == ~IsUnderRoot(ResolvedForm(root, path), resolve(root))

\* C25: getFileContent(root, p) throws "Path traversal detected" for every p
\* whose resolved form is outside root, relative or absolute.
C25_TraversalRejected ==
    [][ \A path \in ReqPaths :
          ( /\ resp'.req = "GET /api/file"
            /\ ApiFile(Expected, path)
            /\ Escapes(RepoRoot, path) )
          => getFileContent(RepoRoot, path) = Err("Path traversal detected", <<>>) ]_vars

\* The path as getFileContent resolves it is outside the root; and it is
\* inside with no such file in the working tree or in HEAD.
Outside(path) == ~IsUnderRoot(resolve(join(RepoRoot, path)), resolve(RepoRoot))
Missing(path) ==
    /\ ~Outside(path)
    /\ resolve(join(RepoRoot, path)) \notin TreeFiles
    /\ ~(~path.abs /\ path.segs \in HeadFiles)

\* C26: GET /api/file is answered 403 exactly when the path resolves outside
\* the root and 404 exactly when it is inside the root and the file is in
\* neither the working tree nor HEAD, whatever the path's characters.
C26_ForbiddenIffOutside ==
    [][ \A path \in ReqPaths :
          ( resp'.req = "GET /api/file" /\ ApiFile(Expected, path) )
          => /\ resp'.status = 403 <=> Outside(path)
             /\ resp'.status = 404 <=> Missing(path) ]_vars

\* A request to an /api/ path or to /sse that carries token t is handled.
RequestWith(t) ==
    \/ Options(t)
    \/ Sse(t)
    \/ SseOther(t)
    \/ ApiGetComments(t)
    \/ \E body \in DraftBodies : ApiAddComment(t, body)
    \/ \E body \in SummaryBodies : ApiSummary(t, body)
    \/ \E id \in Ids, body \in PatchBodies : ApiPatch(t, id, body)
    \/ \E id \in Ids : ApiDelete(t, id)
    \/ \E path \in ReqPaths \cup {NoPath} : ApiFile(t, path)

\* C27: a request to an /api/ path or to /sse whose token is missing or is
\* not the server's is answered 401, carries no content, and changes neither
\* the store, the file, nor the set of connections.
C27_WrongTokenUnauthorized ==
    [][ \A t \in Tokens \ {Expected} :
          ( ops' = ops + 1 /\ resp'.req # "none" /\ RequestWith(t) )
          => /\ resp'.status = 401
             /\ resp'.sent = Nothing
             /\ fs' = fs /\ mt' = mt /\ data' = data /\ lastMtime' = lastMtime
             /\ connections' = connections /\ cast' = cast ]_vars

\* C28: a broadcast to a set of connections, on some of which write throws,
\* writes the event exactly once to every other connection, removes exactly
\* the connections whose write threw, and returns normally.
C28_BroadcastSkipsBroken ==
    [][ cast' # cast
        => /\ \A c \in cast'.to \ broken : cast'.got[c] = 1
           /\ \A c \in cast'.to \cap broken : cast'.got[c] = 0
           /\ cast'.to = connections
           /\ connections' = connections \ broken
           /\ ~cast'.threw ]_vars
\* An event went to two connections; the write to the first threw.
C28_Witness ==
    /\ cast.event = "comments-updated" /\ cast.to = {1, 2}
    /\ 1 \in broken /\ 2 \notin broken
    /\ cast.got[1] = 0 /\ cast.got[2] = 1
    /\ connections = {2}

\* C29: closeAllConnections calls end on every connection of the set, also
\* when end throws on some, and leaves the set empty; after the server's
\* close() no connection is live and neither the watch on review.json nor the
\* watch on the diff's files is active.
C29_CloseReleasesAll ==
    [][ Close
        => /\ connections' = {}
           /\ connections \subseteq ended'
           /\ subs' = {}
           /\ ~fileWatcher'
           /\ ~listening' ]_vars
\* The server was closed with two connections, end threw on the first.
C29_Witness ==
    /\ ~listening /\ connections = {}
    /\ ended = {1, 2} /\ 1 \in broken /\ 2 \notin broken
    /\ subs = {} /\ ~fileWatcher

\* C30: whatever startWatching and stopWatching calls a store has had, at
\* most one subscription on review.json is active; after stopWatching none is
\* active and the callback is not invoked.
C30_AtMostOneSubscription ==
    /\ [](Cardinality(subs) <= 1 /\ (watcher = 0 => subs = {}))
    /\ [][ watcher = 0 => calls' = calls ]_vars

\* C40: when the rename to the backup fails on a branch switch, the store
\* keeps the loaded document in memory, leaves review.json and the backups
\* as they are and writes no fresh document; a failed rename is followed by
\* the overwrite only when the file did not load.
C40_FailedBackupKeepsDocument ==
    [][ Open(FALSE)
        => /\ IsValid(OnDisk)
              => /\ IsBranchSwitch(OnDisk.doc.branch, repoBranch)
                 /\ data' = OnDisk.doc
                 /\ fs' = fs /\ backups' = backups
                 /\ pc' = "idle"
           /\ ~IsValid(OnDisk)
              => /\ pc' = "tmp1" /\ cur'.op = "load:corrupt"
                 /\ wdoc' = emptyReview(Ref, repoBranch) ]_vars
\* The store opened on another branch, the backup could not be made: the
\* old branch's document with its comment is kept.
C40_Witness ==
    /\ pc = "idle" /\ out = "kept"
    /\ data.branch # repoBranch /\ Len(data.comments) > 0
    /\ OnDisk = FileOf(data)

\* C39: a document that the store wrote has status "draft" exactly when its
\* submittedAt is null; a mutation never writes "draft" over another status
\* (also when it deletes the last comment), an addComment never writes
\* "draft", and no mutation writes "resolved" over "draft".
C39_DraftIffNeverSubmitted ==
    /\ []( (hist.writer = "store" /\ IsValid(OnDisk))
              => (OnDisk.doc.status = "draft" <=> OnDisk.doc.submittedAt = NullTs) )
    /\ [][ (StoreCall /\ MutationStarts)
           => /\ data'.status # "draft" => wdoc'.status # "draft"
              /\ cur'.op = "add" => wdoc'.status # "draft"
              /\ data'.status = "draft" => wdoc'.status # "resolved" ]_vars
\* The only comment was deleted: the document on disk is empty, not a draft.
C39_Witness ==
    /\ pc = "idle" /\ hist.writer = "store" /\ IsValid(OnDisk)
    /\ OnDisk.doc.comments = <<>> /\ OnDisk.doc.status = "submitted"
    /\ OnDisk.doc.submittedAt # NullTs /\ data = OnDisk.doc

\* A store operation ends and reports success to its caller, and no other
\* process wrote review.json while it ran.
OperationSucceeds ==
    /\ StoreCall \/ StatAfterWrite \/ StoreOpens
    /\ ~hist.ext
    /\ pc' = "idle" /\ out' \in {"ok", "kept", "loaded"}
\* The store's memory and the file agree.
InSync(d, last, f, mtime) == IsValid(f) /\ d = f.doc /\ last = mtime
\* C38: when a store operation succeeds, the in-memory document equals the
\* document on disk and the last-seen mtime equals the file's mtime.
C38_InSyncAfterSuccess ==
    [][ OperationSucceeds
        => InSync(data', lastMtime', fs'[FilePath], mt'[FilePath]) ]_vars

\* The positions of a document's comments whose id is not the given one.
Others(d, id) == {i \in 1..Len(d.comments) : d.comments[i].id # id}
\* w has the comments of d without those of the given id, in d's order.
OthersKept(d, w, id) ==
    /\ Len(w.comments) = Cardinality(Others(d, id))
    /\ \A i \in Others(d, id) :
          w.comments[Cardinality({j \in Others(d, id) : j <= i})] = d.comments[i]
\* The fields no comment mutation touches.
SameHeader(d, w) ==
    /\ w.ref = d.ref /\ w.branch = d.branch /\ w.round = d.round
    /\ w.submittedAt = d.submittedAt
\* C37: the document updateComment writes differs from the one it started
\* from in the first comment with the given id and the status only, the one
\* deleteComment writes in lacking the comments with the given id only, the
\* one setSummary writes in the summary only; the other comments keep their
\* content, thread and relative position, and ref, branch, round and
\* submittedAt stay.
C37_FrameOfMutations ==
    [][ (StoreCall /\ MutationStarts /\ cur'.op \in {"update", "delete", "summary"})
        => /\ SameHeader(data', wdoc')
           /\ cur'.op = "update"
                 => /\ Len(wdoc'.comments) = Len(data'.comments)
                    /\ \A i \in 1..Len(data'.comments) :
                          i # FindIndex(data'.comments, cur'.id)
                             => wdoc'.comments[i] = data'.comments[i]
                    /\ wdoc'.comments[FindIndex(data'.comments, cur'.id)].id = cur'.id
                    /\ wdoc'.summary = data'.summary
           /\ cur'.op = "delete"
                 => /\ OthersKept(data', wdoc', cur'.id)
                    /\ wdoc'.status = data'.status
                    /\ wdoc'.summary = data'.summary
           /\ cur'.op = "summary"
                 => /\ wdoc'.comments = data'.comments
                    /\ wdoc'.status = data'.status ]_vars
\* The first of two comments was updated, the second is as it was and where
\* it was.
C37_Witness ==
    /\ pc = "tmp1" /\ cur.op = "update"
    /\ Len(data.comments) = 2 /\ Len(wdoc.comments) = 2
    /\ data.comments[1].id = cur.id /\ data.comments[2].id # cur.id
    /\ wdoc.comments[1] # data.comments[1]
    /\ wdoc.comments[2] = data.comments[2]

\* C36: every request that carries the server's token is answered, whatever
\* the store operation behind it does: the handler never ends with no
\* response sent (status 0: what the store threw left handleApiRequest).
C36_AlwaysAnswered ==
    [][ (ops' = ops + 1 /\ resp'.req # "none" /\ RequestWith(Expected))
        => resp'.status # 0 ]_vars

\* A request that mutates the document is handled.
MutationRequest ==
    \/ /\ resp'.req = "POST /api/comments"
       /\ \E body \in DraftBodies : ApiAddComment(Expected, body)
    \/ /\ resp'.req = "POST /api/summary"
       /\ \E body \in SummaryBodies : ApiSummary(Expected, body)
    \/ /\ resp'.req = "PATCH /api/comments/:id"
       /\ \E id \in Ids, body \in PatchBodies : ApiPatch(Expected, id, body)
    \/ /\ resp'.req = "DELETE /api/comments/:id"
       /\ \E id \in Ids : ApiDelete(Expected, id)
\* C35: a mutation request broadcasts only when its mutation was persisted,
\* and the comments-updated event then carries the document that is on
\* disk after the mutation; a mutation that fails, or finds no comment, or
\* is rejected, broadcasts nothing and answers with an error status.
C35_BroadcastAfterPersist ==
    [][ (ops' = ops + 1 /\ resp'.req # "none" /\ MutationRequest)
        => /\ cast' # cast
                => /\ cast'.event = "comments-updated"
                   /\ resp'.status \in {200, 201}
                   /\ IsValid(fs'[FilePath])
                   /\ hist'.writer = "store"
                   /\ cast'.data = fs'[FilePath].doc
                   /\ cast'.data = data'
           /\ resp'.status \notin {200, 201}
                => /\ cast' = cast /\ connections' = connections
                   /\ fs'[FilePath] = fs[FilePath] ]_vars
\* A PATCH changed the only comment and the broadcast carried the changed
\* document to a live connection, while the document before had the comment
\* pending.
C35_Witness ==
    /\ resp.req = "PATCH /api/comments/:id" /\ resp.status = 200
    /\ cast.event = "comments-updated" /\ cast.to # {}
    /\ Len(cast.data.comments) = 1 /\ cast.data.comments[1].status = "resolved"
    /\ cast.data = data /\ IsValid(OnDisk) /\ OnDisk.doc = cast.data

\* A change event of review.json is handled while the file cannot be loaded.
WatchEventOnBadFile ==
    /\ \E s \in subs : WatchEvent(s)
    /\ ~Reloaded.ok
\* C31: a change event that finds review.json missing or invalid raises
\* nothing out of the watch handler, leaves the store's document and the
\* subscription as they are, and invokes no callback.
C31_WatchToleratesBadFile ==
    [][ WatchEventOnBadFile
        => /\ out' # "throw:reload"
           /\ data' = data
           /\ subs' = subs /\ watcher' = watcher
           /\ calls' = calls ]_vars

\* C33: while the server runs, a change of a file of the current diff is
\* followed at once by a diff-changed broadcast to every live connection,
\* whether or not the file was in the diff when the server started.
C33_DiffChangeBroadcast ==
    [][ (listening /\ \E atStartup \in BOOLEAN : DiffFileChange(atStartup))
        => /\ cast'.event = "diff-changed"
           /\ cast'.to = connections
           /\ \A c \in connections \ broken : cast'.got[c] = 1 ]_vars
\* The document on disk is a valid one that the agent wrote.
ExternalWriteOnDisk == hist.writer = "agent" /\ IsValid(OnDisk)
\* The last broadcast carried the document on disk to the connections.
DeliveredToViewers ==
    /\ cast.event = "comments-updated"
    /\ IsValid(OnDisk) /\ cast.data = OnDisk.doc
    /\ \A c \in cast.to \ broken : cast.got[c] = 1
\* C32: with the watcher delivering change events, a valid document that the
\* agent wrote to review.json is eventually broadcast, itself or a later
\* document on disk, in a comments-updated event to the live connections.
C32_ExternalWriteDelivered == ExternalWriteOnDisk ~> DeliveredToViewers
\* C32, amended: so it is for a document written with an mtime later than
\* the one the store saw last; a write within the same mtime is not
\* reloaded (part_020:122).
C32_LaterWriteDelivered ==
    (ExternalWriteOnDisk /\ mt[FilePath] > lastMtime) ~> DeliveredToViewers
\* The agent's document, written later than the store's last write, was
\* reloaded by the watch handler and broadcast to a live connection.
C32_Witness ==
    /\ hist.writer = "agent" /\ DeliveredToViewers
    /\ cast.to # {} /\ cast.to \cap broken = {}
    /\ lastMtime = mt[FilePath] /\ lastMtime > 1
    /\ data = OnDisk.doc /\ data # emptyReview(Ref, Main)

\* The commits that a commit reaches, itself included.
RECURSIVE AncestorsOf(_, _)
AncestorsOf(parent, c) ==
    IF c = NoCommit THEN {} ELSE {c} \cup AncestorsOf(parent, parent[c])
\* The commits that both HEAD and origin/<default branch> reach, in r.
CommonAncestors(r) ==
    AncestorsOf(r.parent, RevParseOrigin(r, getDefaultBranch(r)))
        \cap AncestorsOf(r.parent, r.head)
\* C34: getMergeBase returns null exactly when no default branch is resolved,
\* or HEAD and origin/<default> have no commit in common or the ref does not
\* resolve (the query fails), or their merge-base is HEAD; otherwise it
\* returns the latest commit that both reach; and after a fetch that failed
\* or timed out the refs are as before and the result is the one for them.
C34_MergeBaseOrNone ==
    [][ \A outcome \in FetchOutcomes :
          GetMergeBase(outcome)
          => /\ base'.value = NoCommit
                  <=> \/ getDefaultBranch(repo') = <<>>
                      \/ CommonAncestors(repo') = {}
                      \/ \A c \in CommonAncestors(repo') : c <= repo'.head
                             /\ repo'.head \in CommonAncestors(repo')
             /\ base'.value # NoCommit
                  => /\ base'.value \in CommonAncestors(repo')
                     /\ \A c \in CommonAncestors(repo') : c <= base'.value
             /\ outcome # "ok"
                  => /\ repo' = repo
                     /\ base'.value = MergeBaseAfterFetch(repo) ]_vars
\* The fetch timed out; HEAD is a commit made on top of commit 1, origin/main
\* another one, and the call returned commit 1.
C34_Witness ==
    /\ base.called /\ base.fetch = "timeout" /\ base.value = 1
    /\ repo.head = 3 /\ repo.tracking["main"] = 2 /\ repo.originHead = <<>>
    /\ repo.parent[2] = 1 /\ repo.parent[3] = 1

====
